---- MODULE Spec2Model ----
(***************************************************************************)
(* Cognition Structuring Engine (flask_app/prompt_optimizer.py).           *)
(*                                                                         *)
(* Texts are TLA+ strings, handled character by character with Len, \o and *)
(* SubSeq as Python handles str.  Python values that may be None or of a   *)
(* non-str type are tagged records [t |-> "str", v |-> ...], [t |-> "none"]*)
(* and [t |-> "int", v |-> ...].  Floats with a fixed number of decimals   *)
(* are integers in hundredths (confidence 1.0 is 100, 0.5 is 50).          *)
(* The arrow character U+2192 of two constraint strings is written "->"    *)
(* and the backquotes of one constraint string are written as apostrophes: *)
(* all of them are outside \w and have no upper or lower case.             *)
(***************************************************************************)
EXTENDS Integers, Sequences, FiniteSets, TLC

\* ------------------------------------------------------------------------
\* Python str primitives
\* ------------------------------------------------------------------------

Char(s, i) ==
  SubSeq(s, i, i)

ASCII_UPPERCASE ==
  "ABCDEFGHIJKLMNOPQRSTUVWXYZ"

ASCII_LOWERCASE ==
  "abcdefghijklmnopqrstuvwxyz"

DIGITS ==
  "0123456789"

CharsOf(s) ==
  { Char(s, i) : i \in 1..Len(s) }

\* str.split() and str.strip() without arguments act on these characters.
WHITESPACE ==
  { " ", "\t", "\n", "\r", "\f" }

\* The characters the regular expression class \w matches.
WORD_CHARS ==
  CharsOf(ASCII_UPPERCASE) \cup CharsOf(ASCII_LOWERCASE) \cup CharsOf(DIGITS) \cup { "_" }

lower_char ==
  [ c \in CharsOf(ASCII_UPPERCASE) |->
      Char(ASCII_LOWERCASE, CHOOSE i \in 1..26 : Char(ASCII_UPPERCASE, i) = c) ]

RECURSIVE lower(_)
\* str.lower()
lower(s) ==
  IF Len(s) = 0 THEN ""
  ELSE IF Len(s) = 1 THEN (IF s \in DOMAIN lower_char THEN lower_char[s] ELSE s)
  ELSE LET h == Len(s) \div 2
       IN  lower(SubSeq(s, 1, h)) \o lower(SubSeq(s, h + 1, Len(s)))

\* str.strip()
strip(s) ==
  LET idx == { i \in 1..Len(s) : Char(s, i) \notin WHITESPACE }
  IN  IF idx = {} THEN ""
      ELSE SubSeq(s, CHOOSE i \in idx : \A j \in idx : i <= j,
                     CHOOSE i \in idx : \A j \in idx : j <= i)

\* sub in s
contains(sub, s) ==
  \E i \in 0..(Len(s) - Len(sub)) : SubSeq(s, i + 1, i + Len(sub)) = sub

RECURSIVE split_from(_, _)
\* The words of s from position i + 1 on, split at runs of whitespace.
split_from(s, i) ==
  IF i >= Len(s) THEN << >>
  ELSE IF Char(s, i + 1) \in WHITESPACE THEN split_from(s, i + 1)
  ELSE LET stops == { j \in (i + 1)..Len(s) : Char(s, j) \in WHITESPACE }
           e == IF stops = {} THEN Len(s)
                ELSE (CHOOSE j \in stops : \A k \in stops : j <= k) - 1
       IN  << SubSeq(s, i + 1, e) >> \o split_from(s, e)

\* str.split()
split(s) ==
  split_from(s, 0)

RECURSIVE join(_, _)
\* sep.join(items)
join(sep, items) ==
  IF Len(items) = 0 THEN ""
  ELSE IF Len(items) = 1 THEN items[1]
  ELSE items[1] \o sep \o join(sep, Tail(items))

RECURSIVE int_str(_)
\* str(n) for n >= 0, as the f-string of an int renders it
int_str(n) ==
  IF n < 10 THEN Char(DIGITS, n + 1)
  ELSE int_str(n \div 10) \o Char(DIGITS, (n % 10) + 1)

\* The regular expression assertion \b at offset i of s (between s[i] and
\* s[i+1], 0 <= i <= Len(s)): exactly one side is a \w character.
word_boundary(s, i) ==
  (i > 0 /\ Char(s, i) \in WORD_CHARS) # (i < Len(s) /\ Char(s, i + 1) \in WORD_CHARS)

\* Mutant: the word boundaries are left out of the pattern.
re_search_word_Substring(word, s) ==
  \E i \in 0..(Len(s) - Len(word)) : SubSeq(s, i + 1, i + Len(word)) = word

\* re.search(rf"\b{re.escape(word)}\b", s) is not None
re_search_word(word, s) ==
  \E i \in 0..(Len(s) - Len(word)) :
     /\ SubSeq(s, i + 1, i + Len(word)) = word
     /\ word_boundary(s, i)
     /\ word_boundary(s, i + Len(word))

\* The length matched at offset i of s by \b(a1|a2|...)\b with re.IGNORECASE:
\* the first alternative, in order, that matches with a \b on both sides; 0
\* when the pattern has no match at i.
match_at(alts, s, i) ==
  LET ok == { k \in 1..Len(alts) :
                /\ i + Len(alts[k]) <= Len(s)
                /\ lower(SubSeq(s, i + 1, i + Len(alts[k]))) = alts[k]
                /\ word_boundary(s, i + Len(alts[k])) }
  IN  IF ~word_boundary(s, i) \/ ok = {} THEN 0
      ELSE Len(alts[CHOOSE k \in ok : \A j \in ok : k <= j])

RECURSIVE re_sub_from(_, _, _)
\* re.sub(pattern, '', s, flags=re.IGNORECASE) for the part of s after offset
\* i: matches are found left to right, do not overlap, and are deleted.
re_sub_from(alts, s, i) ==
  LET starts == { j \in i..(Len(s) - 1) : match_at(alts, s, j) > 0 }
  IN  IF starts = {} THEN SubSeq(s, i + 1, Len(s))
      ELSE LET j == CHOOSE first \in starts : \A other \in starts : first <= other
           IN  SubSeq(s, i + 1, j) \o re_sub_from(alts, s, j + match_at(alts, s, j))

re_sub(alts, s) ==
  re_sub_from(alts, s, 0)

\* ------------------------------------------------------------------------
\* Core types and registry tables
\* ------------------------------------------------------------------------

\* class Framework(Enum): the member names in declaration order.
Framework ==
  << "CODING", "TEACHING", "EXPLANATION", "RESEARCH", "CREATIVE", "STRATEGY", "CONTENT" >>

Frameworks ==
  { Framework[i] : i \in 1..Len(Framework) }

FORBIDDEN_WORDS ==
  << "or", "maybe", "could", "might", "possibly",
     "either", "can be", "kind of", "sort of",
     "perhaps", "whatever", "something like" >>

MANDATORY_SECTIONS ==
  << "ROLE", "PLATFORM", "OBJECTIVE", "SCOPE", "CONSTRAINTS", "EXECUTION", "OUTPUT CONTRACT" >>

FrameworkValue ==
  [ CODING |-> "coding_technical",
    TEACHING |-> "instruction_learning",
    EXPLANATION |-> "research_exploration",
    RESEARCH |-> "reasoning_problem_solving",
    CREATIVE |-> "creative_ideation",
    STRATEGY |-> "optimization_review",
    CONTENT |-> "writing_communication" ]

spec_name ==
  [ CODING |-> "Coding & Development",
    TEACHING |-> "Teaching & Learning",
    EXPLANATION |-> "Explanation",
    RESEARCH |-> "Research & Analysis",
    CREATIVE |-> "Creative & Design",
    STRATEGY |-> "Strategy & Thinking",
    CONTENT |-> "Content Creation" ]

spec_description ==
  [ CODING |-> "Architecture clarity, deterministic behavior, production-grade systems",
    TEACHING |-> "Progressive complexity, concept sequencing, retention-focused",
    EXPLANATION |-> "High signal density, zero fluff, technically precise",
    RESEARCH |-> "Evidence-based, analytically rigorous, structured inquiry",
    CREATIVE |-> "Constrained creativity, taste-controlled, visual coherence",
    STRATEGY |-> "First-principles reasoning, decision-grade clarity, single recommendation",
    CONTENT |-> "Audience-aligned, purpose-driven, structured communication" ]

spec_targets ==
  [ CODING |-> <<"Senior Software Engineer",
                 "Production-grade",
                 "No prototypes">>,
    TEACHING |-> <<"Expert Instructor",
                   "Progressive complexity",
                   "Retention-focused">>,
    EXPLANATION |-> <<"Domain Expert",
                      "High signal density",
                      "Zero fluff">>,
    RESEARCH |-> <<"Research Analyst",
                   "Evidence-based",
                   "Analytically rigorous">>,
    CREATIVE |-> <<"Creative Director",
                   "Constrained creativity",
                   "Taste-controlled">>,
    STRATEGY |-> <<"Strategic Advisor",
                   "First-principles",
                   "Decision-grade">>,
    CONTENT |-> <<"Content Strategist",
                  "Audience-aligned",
                  "Purpose-driven">> ]

spec_triggers ==
  [ CODING |-> <<"code",
                 "build",
                 "implement",
                 "function",
                 "api",
                 "debug",
                 "fix",
                 "create",
                 "develop",
                 "program",
                 "script",
                 "database",
                 "backend",
                 "frontend",
                 "app">>,
    TEACHING |-> <<"teach",
                   "learn",
                   "how to",
                   "tutorial",
                   "guide",
                   "understand",
                   "beginner",
                   "step by step",
                   "explain how",
                   "show me">>,
    EXPLANATION |-> <<"what is",
                      "explain",
                      "describe",
                      "tell me about",
                      "overview",
                      "summary",
                      "eli5",
                      "difference between">>,
    RESEARCH |-> <<"research",
                   "analyze",
                   "compare",
                   "investigate",
                   "study",
                   "evaluate",
                   "assess",
                   "pros and cons",
                   "tradeoffs">>,
    CREATIVE |-> <<"design",
                   "creative",
                   "brainstorm",
                   "ideas",
                   "story",
                   "visual",
                   "aesthetic",
                   "style",
                   "brand",
                   "ui",
                   "ux">>,
    STRATEGY |-> <<"decide",
                   "should i",
                   "strategy",
                   "plan",
                   "approach",
                   "solve",
                   "problem",
                   "optimize",
                   "improve",
                   "best way">>,
    CONTENT |-> <<"write",
                  "draft",
                  "email",
                  "blog",
                  "content",
                  "article",
                  "post",
                  "message",
                  "copy",
                  "document">> ]

goals ==
  [ CODING |-> "Build a production-grade system with deterministic behavior",
    TEACHING |-> "Teach concept progressively with verification checkpoints",
    EXPLANATION |-> "Explain with high signal density and zero fluff",
    RESEARCH |-> "Conduct structured analysis with evidence-backed findings",
    CREATIVE |-> "Design within explicit constraints and single direction",
    STRATEGY |-> "Produce single decision recommendation from first principles",
    CONTENT |-> "Create structured content for defined audience" ]

scopes_included ==
  [ CODING |-> <<"Core functionality",
                 "Error handling",
                 "Type safety">>,
    TEACHING |-> <<"Core concept",
                   "Prerequisites",
                   "Practice exercises">>,
    EXPLANATION |-> <<"Definition",
                      "Mechanism",
                      "Example",
                      "Limitations">>,
    RESEARCH |-> <<"Research question",
                   "Methodology",
                   "Findings",
                   "Implications">>,
    CREATIVE |-> <<"Visual system",
                   "Component design",
                   "Interaction rules">>,
    STRATEGY |-> <<"Problem reframe",
                   "Options analysis",
                   "Single recommendation">>,
    CONTENT |-> <<"Core message",
                  "Structure",
                  "Call-to-action">> ]

scopes_excluded ==
  [ CODING |-> <<"Testing infrastructure",
                 "Deployment configs",
                 "CI/CD",
                 "Documentation beyond inline">>,
    TEACHING |-> <<"Advanced edge cases",
                   "Alternative approaches",
                   "Historical context">>,
    EXPLANATION |-> <<"History",
                      "Alternatives",
                      "Opinions",
                      "Comparisons">>,
    RESEARCH |-> <<"Recommendations beyond scope",
                   "Speculative futures">>,
    CREATIVE |-> <<"Implementation code",
                   "Backend logic",
                   "Content strategy">>,
    STRATEGY |-> <<"Implementation details",
                   "Timeline",
                   "Resource allocation">>,
    CONTENT |-> <<"Distribution strategy",
                  "SEO",
                  "Visual assets">> ]

constraints ==
  [ CODING |-> <<"Stack: React 18 + TypeScript (DECIDED)",
                 "Architecture: Modular with single-responsibility",
                 "Error handling: Explicit paths for all failures",
                 "Types: Strict, no 'any', no implicit",
                 "Functions: Maximum 40 lines, single purpose">>,
    TEACHING |-> <<"Prerequisites: Stated before content",
                   "Concept limit: One per section maximum",
                   "Progression: Simple -> Applied -> Abstract (strict)",
                   "Validation: Each section ends with checkpoint">>,
    EXPLANATION |-> <<"Structure: Definition -> Mechanism -> Example -> Limitation (mandatory)",
                      "Density: Every sentence adds unique information",
                      "Separation: Intuition vs implementation distinct",
                      "Boundaries: State what does NOT apply">>,
    RESEARCH |-> <<"Research question: Explicitly stated first",
                   "Scope: Defined boundaries (in/out)",
                   "Assumptions: Declared upfront",
                   "Evidence: No claims without backing">>,
    CREATIVE |-> <<"Colors: Max 5 in palette",
                   "Typography: Single scale, max 3 weights",
                   "Spacing: 4px/8px grid system",
                   "Mood: Single anchor (Professional-minimal)">>,
    STRATEGY |-> <<"Reframe: Problem restated from first principles",
                   "Options: Exactly 3 distinct paths",
                   "Criteria: Explicit decision factors with weights",
                   "No: Motivational language, generic advice, hedging">>,
    CONTENT |-> <<"Audience: Technical professionals (DECIDED)",
                  "Intent: Inform (single purpose)",
                  "Tone: Professional, direct, no contractions",
                  "Length: 500-800 words">> ]

executions ==
  [ CODING |-> <<"Define file structure and module boundaries",
                 "Establish interfaces and type contracts",
                 "Implement core logic with input validation",
                 "Add error boundaries and edge cases",
                 "Include usage example">>,
    TEACHING |-> <<"State prerequisites and single learning outcome",
                   "Introduce concept with minimal example",
                   "Explain mechanism (not just syntax)",
                   "Provide practice exercise with expected output",
                   "Bridge to next concept">>,
    EXPLANATION |-> <<"Precise definition (one sentence)",
                      "How it works mechanistically",
                      "Concrete example with context",
                      "Limitations and edge cases">>,
    RESEARCH |-> <<"Frame precise research question",
                   "Define scope and methodology",
                   "Analyze with structured approach",
                   "Synthesize findings with evidence",
                   "State implications and limitations">>,
    CREATIVE |-> <<"Define visual constraints explicitly",
                   "Establish style rules with values",
                   "Design within boundaries",
                   "Validate against mood anchor">>,
    STRATEGY |-> <<"Reframe problem from first principles",
                   "Identify hard constraints and variables",
                   "Generate 3 distinct options",
                   "Compare against weighted criteria",
                   "Single recommendation with reasoning">>,
    CONTENT |-> <<"Define audience context and needs",
                  "Lock single content intent",
                  "Structure for scannable consumption",
                  "Apply consistent tone throughout",
                  "End with clear call-to-action">> ]

contracts ==
  [ CODING |-> <<"Format: Complete, runnable TypeScript code",
                 "Deliverables: All files with imports, no placeholders",
                 "Boundaries: No test files, no deployment configs">>,
    TEACHING |-> <<"Format: Numbered sections with headers",
                   "Deliverables: Concept explanation, code example, exercise",
                   "Boundaries: No tangents, no alternatives">>,
    EXPLANATION |-> <<"Format: Four sections matching execution order",
                      "Deliverables: Definition, mechanism, example, limitations",
                      "Boundaries: No storytelling, no metaphors">>,
    RESEARCH |-> <<"Format: Structured analysis with headers",
                   "Deliverables: Question, methodology, findings, implications",
                   "Boundaries: No opinions without evidence">>,
    CREATIVE |-> <<"Format: Design specification with values",
                   "Deliverables: Color codes, spacing, typography, components",
                   "Boundaries: No alternatives, no mood boards">>,
    STRATEGY |-> <<"Format: Structured analysis with decision matrix",
                   "Deliverables: Reframed problem, 3 options, matrix, recommendation",
                   "Boundaries: No hedging, no multiple recommendations">>,
    CONTENT |-> <<"Format: Structured content with headers",
                  "Deliverables: Complete draft, ready to publish",
                  "Boundaries: No multiple drafts, no options">> ]

\* ------------------------------------------------------------------------
\* OutputValidator
\* ------------------------------------------------------------------------

forbidden_violation(word) ==
  "Forbidden word detected: '" \o word \o "'"

missing_violation(section) ==
  "Missing mandatory section: " \o section

\* The forbidden words found in text, in list order.
forbidden_found(text) ==
  LET lowered == lower(text)
  IN  SelectSeq(FORBIDDEN_WORDS, LAMBDA word : re_search_word(word, lowered))

\* The mandatory sections absent from text, in list order.
sections_missing(text) ==
  SelectSeq(MANDATORY_SECTIONS, LAMBDA section : ~contains(section, text))

\* Mutant: the sections are checked before the forbidden words.
validate_SectionsFirst(text) ==
  LET words == forbidden_found(text)
      sections == sections_missing(text)
  IN  [ i \in 1..Len(sections) |-> missing_violation(sections[i]) ]
        \o [ i \in 1..Len(words) |-> forbidden_violation(words[i]) ]

validate(text) ==
  LET words == forbidden_found(text)
      sections == sections_missing(text)
  IN  [ i \in 1..Len(words) |-> forbidden_violation(words[i]) ]
        \o [ i \in 1..Len(sections) |-> missing_violation(sections[i]) ]

\* ------------------------------------------------------------------------
\* DecisionEngine, StructureAssembler, StaticStructurer
\* ------------------------------------------------------------------------

decide_platform(text) ==
  LET text_lower == lower(text)
  IN  IF contains("mobile", text_lower) \/ contains("ios", text_lower)
           \/ contains("android", text_lower)
        THEN "Mobile Application"
      ELSE IF contains("api", text_lower) \/ contains("backend", text_lower)
           \/ contains("server", text_lower)
        THEN "Backend Service"
      ELSE IF contains("cli", text_lower) \/ contains("terminal", text_lower)
           \/ contains("command", text_lower)
        THEN "CLI Tool"
      ELSE "Web Application"

decide_goal(fw) ==
  goals[fw]

decide_persona(fw) ==
  IF Len(spec_targets[fw]) > 0 THEN spec_targets[fw][1] ELSE "Expert"

decide_scope(fw) ==
  << scopes_included[fw], scopes_excluded[fw] >>

decide_constraints(fw) ==
  constraints[fw]

decide_execution(fw) ==
  executions[fw]

decide_output_contract(fw) ==
  contracts[fw]

\* "\n".join(f"- {s}" for s in items)
bullets(items) ==
  join("\n", [ i \in 1..Len(items) |-> "- " \o items[i] ])

assemble(persona, platform, objective, scope_in, scope_out, cons, execution, output_contract) ==
  LET scope_in_str == bullets(scope_in)
      scope_out_str == bullets(scope_out)
      constraints_str == bullets(cons)
      execution_str ==
        join("\n", [ i \in 1..Len(execution) |-> int_str(i) \o ". " \o execution[i] ])
      output_str == bullets(output_contract)
  IN  "ROLE\n" \o persona \o "\n\nPLATFORM\n" \o platform
        \o "\n\nOBJECTIVE\n" \o objective
        \o "\n\nSCOPE\nIncluded:\n" \o scope_in_str
        \o "\n\nExcluded:\n" \o scope_out_str
        \o "\n\nCONSTRAINTS\n" \o constraints_str
        \o "\n\nEXECUTION\n" \o execution_str
        \o "\n\nOUTPUT CONTRACT\n" \o output_str

filler_patterns ==
  << << "please", "kindly", "could you", "can you", "i want to", "i need to",
        "i would like to" >>,
     << "maybe", "possibly", "perhaps", "something like", "sort of", "kind of" >>,
     << "basically", "actually", "honestly", "literally" >> >>

RECURSIVE sub_all(_, _)
\* for pattern in patterns: text = re.sub(pattern, '', text, flags=re.IGNORECASE)
sub_all(patterns, text) ==
  IF Len(patterns) = 0 THEN text
  ELSE sub_all(Tail(patterns), re_sub(Head(patterns), text))

clean_input(text) ==
  strip(join(" ", split(sub_all(filler_patterns, text))))

\* The prompt StaticStructurer.structure assembles.
structured_prompt(text, fw) ==
  LET cleaned == clean_input(text)
      objective == decide_goal(fw) \o ": " \o cleaned
      scope == decide_scope(fw)
  IN  assemble(decide_persona(fw), decide_platform(text), objective,
               scope[1], scope[2], decide_constraints(fw),
               decide_execution(fw), decide_output_contract(fw))

\* Mutant: an accepted text is returned with full confidence.
OptimizedPrompt_FullConfidence(fw, fw_name, text, is_valid, found, conf, mode) ==
  [ framework |-> fw, framework_name |-> fw_name, prompt |-> text,
    valid |-> is_valid, violations |-> found,
    confidence |-> IF mode = "dynamic" THEN 100 ELSE conf,
    generation_mode |-> mode ]

OptimizedPrompt(fw, fw_name, text, is_valid, found, conf, mode) ==
  [ framework |-> fw, framework_name |-> fw_name, prompt |-> text,
    valid |-> is_valid, violations |-> found, confidence |-> conf,
    generation_mode |-> mode ]

\* Mutant: valid is set without looking at the violations.
structure_AlwaysValid(text, fw) ==
  LET structured == structured_prompt(text, fw)
      violations == validate(structured)
  IN  OptimizedPrompt(fw, spec_name[fw], structured, TRUE, violations, 100, "static")

structure(text, fw) ==
  LET structured == structured_prompt(text, fw)
      violations == validate(structured)
  IN  OptimizedPrompt(fw, spec_name[fw], structured,
                      Len(violations) = 0, violations, 100, "static")

\* ------------------------------------------------------------------------
\* FrameworkClassifier and PromptOptimizer._resolve_framework
\* ------------------------------------------------------------------------

\* The first of the hits of a for loop that returns on its first hit, in a
\* one-element sequence; << >> when the loop falls through.
first_hit(hits) ==
  IF Len(hits) = 0 THEN << >> ELSE << hits[1] >>

\* score = sum(1 for trigger in spec.triggers if trigger in input_lower)
trigger_score(fw, input_lower) ==
  Len(SelectSeq(spec_triggers[fw], LAMBDA trigger : contains(trigger, input_lower)))

\* Mutant: of the keys with the largest score the last one is taken.
best_framework_Last(scores) ==
  LET hits == SelectSeq(Framework, LAMBDA f : \A g \in Frameworks : scores[g] <= scores[f])
  IN  hits[Len(hits)]

\* max(scores, key=scores.get): the first key, in insertion order, whose
\* score is the largest.
best_framework(scores) ==
  first_hit(SelectSeq(Framework, LAMBDA f : \A g \in Frameworks : scores[g] <= scores[f]))[1]

\* Mutant: the test for an all-zero score table is dropped.
classify_NoZeroCheck(text) ==
  LET input_lower == lower(text)
      scores == [ f \in Frameworks |-> trigger_score(f, input_lower) ]
      best == best_framework(scores)
      score20 == scores[best] * 20
  IN  << best, IF score20 < 100 THEN score20 ELSE 100, "Classified as " \o spec_name[best] >>

classify(text) ==
  LET input_lower == lower(text)
      scores == [ f \in Frameworks |-> trigger_score(f, input_lower) ]
  IN  IF \A f \in Frameworks : scores[f] = 0
        THEN << "CODING", 50, "Default classification" >>
      ELSE LET best == best_framework(scores)
               score20 == scores[best] * 20
           IN  << best, IF score20 < 100 THEN score20 ELSE 100,
                  "Classified as " \o spec_name[best] >>

keyword_map ==
  << << "coding", "CODING" >>, << "code", "CODING" >>, << "build", "CODING" >>,
     << "teaching", "TEACHING" >>, << "learn", "TEACHING" >>,
     << "explain", "EXPLANATION" >>,
     << "research", "RESEARCH" >>, << "analyze", "RESEARCH" >>,
     << "creative", "CREATIVE" >>, << "design", "CREATIVE" >>,
     << "strategy", "STRATEGY" >>, << "decide", "STRATEGY" >>,
     << "content", "CONTENT" >>, << "write", "CONTENT" >> >>

\* Mutant: the identifier (fw.value) is not compared.
direct_match_NameOnly(name) ==
  first_hit(SelectSeq(Framework, LAMBDA f : lower(f) = name))

\* for fw in Framework: if fw.value == name or fw.name.lower() == name
direct_match(name) ==
  first_hit(SelectSeq(Framework, LAMBDA f : FrameworkValue[f] = name \/ lower(f) = name))

\* for fw in Framework: if name in fw.value or name in fw.name.lower()
partial_match(name) ==
  first_hit(SelectSeq(Framework, LAMBDA f : contains(name, FrameworkValue[f]) \/ contains(name, lower(f))))

\* for keyword, fw in keyword_map.items(): if keyword in name
keyword_match(name) ==
  first_hit(SelectSeq(keyword_map, LAMBDA entry : contains(entry[1], name)))

\* Mutant: the keyword map is consulted before the partial match.
resolve_framework_KeywordFirst(explicit_name) ==
  LET name == strip(lower(explicit_name))
      direct == direct_match(name)
      partial == partial_match(name)
      keyword == keyword_match(name)
  IN  IF Len(direct) > 0 THEN << direct[1], 100 >>
      ELSE IF Len(keyword) > 0 THEN << keyword[1][2], 80 >>
      ELSE IF Len(partial) > 0 THEN << partial[1], 90 >>
      ELSE << "CODING", 50 >>

resolve_framework(explicit_name) ==
  LET name == strip(lower(explicit_name))
      direct == direct_match(name)
      partial == partial_match(name)
      keyword == keyword_match(name)
  IN  IF Len(direct) > 0 THEN << direct[1], 100 >>
      ELSE IF Len(partial) > 0 THEN << partial[1], 90 >>
      ELSE IF Len(keyword) > 0 THEN << keyword[1][2], 80 >>
      ELSE << "CODING", 50 >>

\* ------------------------------------------------------------------------
\* Python values and the LLM provider
\* ------------------------------------------------------------------------

None ==
  [ t |-> "none" ]

Str(s) ==
  [ t |-> "str", v |-> s ]

Num(n) ==
  [ t |-> "int", v |-> n ]

\* bool(value) of an Optional[str]
truthy(value) ==
  value.t = "str" /\ Len(value.v) > 0

MAX_RETRIES ==
  2

\* A text with the seven headers and no forbidden word.
VALID_TEXT ==
  "ROLE\nEngineer\n\nPLATFORM\nWeb\n\nOBJECTIVE\nBuild\n\nSCOPE\nCore\n\nCONSTRAINTS\nNone\n\nEXECUTION\n1. Do\n\nOUTPUT CONTRACT\nCode"

\* The texts the model lets the LLM return: a valid one, the empty string,
\* one that lacks sections, one with every section and a forbidden word.
LLM_TEXTS ==
  { VALID_TEXT, "", "ROLE\nEngineer", VALID_TEXT \o "\nReact Or Vue" }

\* The body of an HTTP response: not JSON at all, JSON without the
\* choices[0].message.content path, or JSON whose content is null, a number
\* or a string.
Bodies ==
  { [ json |-> FALSE, has_content |-> FALSE, content |-> None ],
    [ json |-> TRUE, has_content |-> FALSE, content |-> None ],
    [ json |-> TRUE, has_content |-> TRUE, content |-> None ],
    [ json |-> TRUE, has_content |-> TRUE, content |-> Num(42) ] }
  \cup { [ json |-> TRUE, has_content |-> TRUE, content |-> Str(text) ] : text \in LLM_TEXTS }

\* What requests.post does: raise (timeout, connection error) or return a
\* response with a status code and a body.
Responses ==
  { [ kind |-> k, status |-> 0, body |-> [ json |-> FALSE, has_content |-> FALSE, content |-> None ] ] :
      k \in { "timeout", "connection_error" } }
  \cup { [ kind |-> "http", status |-> 200, body |-> b ] : b \in Bodies }
  \cup { [ kind |-> "http", status |-> s,
           body |-> [ json |-> FALSE, has_content |-> FALSE, content |-> None ] ] : s \in { 500 } }

\* GroqProvider.generate: every exception and every status other than 200
\* gives None; a 200 response gives choices[0].message.content as it is.
generate(is_available, response) ==
  IF ~is_available THEN None
  ELSE IF response.kind # "http" THEN None
  ELSE IF response.status = 200
    THEN IF response.body.json /\ response.body.has_content
           THEN response.body.content
         ELSE None
  ELSE None

\* RETRY_BACKOFF = 1.5, as the fraction 3/2
RETRY_BACKOFF ==
  << 3, 2 >>

\* The literal 0.3 of temp = 0.3 * (self.RETRY_BACKOFF ** attempt), in
\* thousandths; temperatures are in thousandths.
BASE_TEMPERATURE ==
  300

RECURSIVE power(_, _)
\* base ** n
power(base, n) ==
  IF n = 0 THEN 1 ELSE base * power(base, n - 1)

\* Mutant: the temperature is not raised on a retry.
temperature_NoBackoff(n) ==
  BASE_TEMPERATURE

\* temp = min(0.3 * (self.RETRY_BACKOFF ** attempt), 1.0), computed in
\* exact arithmetic
temperature(n) ==
  LET numerator == BASE_TEMPERATURE * power(RETRY_BACKOFF[1], n)
      denominator == power(RETRY_BACKOFF[2], n)
  IN  IF numerator > 1000 * denominator THEN 1000 ELSE numerator \div denominator

\* The user prompt of _generate_with_llm: the first form on attempt 0,
\* the retry form with the violation feedback on every later attempt.
user_prompt(text, fw, n, violation_feedback) ==
  IF n = 0
    THEN "Optimize this input into a structured prompt:\n\nINPUT: " \o text
           \o "\n\nFRAMEWORK: " \o spec_name[fw]
           \o "\n\nGenerate a complete structured prompt following MANDATORY SECTIONS exactly.\n"
           \o "No exceptions. No shortcuts.\n\nReturn ONLY the structured prompt. No explanations."
  ELSE "Your previous output violated the following rules:\n"
         \o join("\n", [ i \in 1..Len(violation_feedback) |-> "- " \o violation_feedback[i] ])
         \o "\n\nINPUT: " \o text \o "\nFRAMEWORK: " \o spec_name[fw]
         \o "\n\nREGENERATE the prompt correcting ALL violations.\n"
         \o "Be exact. Follow structure precisely.\n"
         \o "Do not explain changes. Return ONLY the structured prompt."

\* The arguments _generate_with_llm passes to llm_provider.generate, with
\* the violation feedback it was called with.
generate_request(text, fw, n, violation_feedback) ==
  [ user_input |-> user_prompt(text, fw, n, violation_feedback),
    temperature |-> temperature(n),
    max_tokens |-> 2000,
    violation_feedback |-> violation_feedback ]

\* ------------------------------------------------------------------------
\* Bounded inputs
\* ------------------------------------------------------------------------

MaxWords ==
  1

\* config.MAX_PROMPT_LENGTH is read from the environment (default 10000);
\* the model runs the application configured with a small limit.
MAX_PROMPT_LENGTH ==
  16

MIN_PROMPT_LENGTH ==
  3

\* The Config object with the defaults of config.py.
Config ==
  [ MAX_PROMPT_LENGTH |-> MAX_PROMPT_LENGTH, MIN_PROMPT_LENGTH |-> MIN_PROMPT_LENGTH ]

Vocabulary ==
  << "build", "or", "maybe", "Could" >>

RECURSIVE Phrases(_)
\* The texts of at most n words of the vocabulary, separated by one space.
Phrases(n) ==
  IF n = 0 THEN { "" }
  ELSE LET shorter == Phrases(n - 1)
       IN  shorter \cup { IF p = "" THEN Vocabulary[i] ELSE p \o " " \o Vocabulary[i] :
                            p \in shorter, i \in 1..Len(Vocabulary) }

UserInputs ==
  Phrases(MaxWords) \cup { "   ", "\t\n" }

ExplicitNames ==
  { FrameworkValue[f] : f \in Frameworks }
  \cup { " Research ", "re", "learning", "write code", "zzz", " " }

ExplicitFrameworks ==
  { None, Str("") } \cup { Str(name) : name \in ExplicitNames }

\* The strings the model sends as "prompt" to the HTTP endpoints: too
\* short, blank, padded, at the length limits, too long, and with and
\* without each suspicious pattern.
ChatPromptTexts ==
  { "ab", "   ", " ab ", "abc", "  build  ", "build", "maybe", "Could", "sixteen chars ok",
    "seventeen chars o", "  sixteen chars ok  ", "a prompt that is too long",
    "<script>x", "<SCRIPT x", "<scripts", "JavaScript:x", "data:text/html", "{{x}}",
    "{{\n}}", "}}{{", "${x}", "$ {x}" }

\* StaticStructurer.structure tabulated over the non-empty inputs of the
\* model and the frameworks (@@ makes TLC compute the table once).
static_structurer ==
  [ call \in { x \in UserInputs \cup { strip(text) : text \in ChatPromptTexts } : strip(x) # "" }
              \X Frameworks |-> structure(call[1], call[2]) ]
    @@ << >>

\* ------------------------------------------------------------------------
\* PromptOptimizationSystem.process / PromptOptimizer.optimize
\* ------------------------------------------------------------------------

VARIABLES
  pc,                 \* position of the call: idle, check_input, resolved,
                      \* generate, generated, returned, raised
  user_input,         \* arguments of process()
  explicit_framework,
  force_static,
  cleaned_input,      \* locals of optimize()
  framework,
  confidence,
  attempt,
  violation_history,
  generated,
  generate_calls,     \* calls of llm_provider.generate made by this call
  attempt_log,        \* per _generate_with_llm call: is_available as read, the request
                      \* passed to generate (None if none was), the value returned
  result,             \* the dict process() returned, or None
  raised              \* the exception process() raised, or "none"

args ==
  << user_input, explicit_framework, force_static >>

VARIABLES
  suspended,          \* the frame of a second call of process() in flight on the same system
  arg_text,           \* the text a caller passes to classify() and validate()
  classify_returned,  \* what classify(arg_text) returned, or None
  validate_returned,  \* what validate(arg_text) returned, or None
  clean_returned,     \* what _clean_input(arg_text) returned, or None
  llm_service,        \* the global llm_service of app.py: "LLMService" or None
  config,             \* the configuration create_app() was given
  api_pc,             \* position of the request handler: idle, received, validated,
                      \* enhanced, responded
  http_request,       \* the HTTP request being handled, or None
  validated,          \* what the validation function of the route returned or raised
  llm_exchange,       \* what requests.post did for llm_service: raised, or a response
  llm_outcome,        \* what llm_service.optimize_prompt returned or raised
  http_response       \* the HTTP response, or None

\* The state outside the running call of process().
outer ==
  << suspended, arg_text, classify_returned, validate_returned, clean_returned, llm_service,
     config, api_pc, http_request, validated, llm_exchange, llm_outcome, http_response >>

vars ==
  << pc, user_input, explicit_framework, force_static, cleaned_input, framework,
     confidence, attempt, violation_history, generated, generate_calls, attempt_log,
     result, raised, outer >>

\* The frame of a call of process() that has not started or has finished.
idle_frame ==
  [ pc |-> "idle", user_input |-> "", explicit_framework |-> None, force_static |-> FALSE,
    cleaned_input |-> None, framework |-> "none", confidence |-> 0, attempt |-> 0,
    violation_history |-> << >>, generated |-> None, generate_calls |-> 0,
    attempt_log |-> << >>, result |-> None, raised |-> "none" ]

\* No second call of process() is in flight.
NoOtherCall ==
  suspended = idle_frame

\* No call of classify() or validate() from outside process().
NoTextCall ==
  /\ arg_text = ""
  /\ classify_returned = None
  /\ validate_returned = None
  /\ clean_returned = None

\* No request in the server.
NoRequest ==
  /\ api_pc = "idle"
  /\ http_request = None
  /\ validated = None
  /\ llm_exchange = None
  /\ llm_outcome = None
  /\ http_response = None

\* No call of process() has started.
NoCall ==
  /\ pc = "idle"
  /\ user_input = ""
  /\ explicit_framework = None
  /\ force_static = FALSE
  /\ cleaned_input = None
  /\ framework = "none"
  /\ confidence = 0
  /\ attempt = 0
  /\ violation_history = << >>
  /\ generated = None
  /\ generate_calls = 0
  /\ attempt_log = << >>
  /\ result = None
  /\ raised = "none"

Init ==
  /\ NoCall
  /\ NoOtherCall
  /\ NoTextCall
  /\ llm_service = None
  /\ config = Config
  /\ NoRequest

\* The dict process() builds from the OptimizedPrompt optimize() returned.
process_result(original_input, optimized) ==
  [ original_input |-> original_input,
    optimized_prompt |-> optimized.prompt,
    framework |-> [ id |-> FrameworkValue[optimized.framework],
                    name |-> optimized.framework_name,
                    description |-> spec_description[optimized.framework],
                    role |-> IF Len(spec_targets[optimized.framework]) > 0
                               THEN spec_targets[optimized.framework][1] ELSE "Expert" ],
    confidence |-> optimized.confidence,
    reasoning |-> "Classified as " \o optimized.framework_name,
    generation_mode |-> optimized.generation_mode,
    valid |-> optimized.valid,
    violations |-> optimized.violations ]

\* Mutant: the fallback result carries the violations of the failed attempts.
ReturnStatic_WithHistory ==
  /\ result' = process_result(user_input,
                 [ static_structurer[<< user_input, framework >>]
                     EXCEPT !.violations = violation_history ])
  /\ pc' = "returned"

\* return self.static_structurer.structure(user_input, framework)
ReturnStatic ==
  /\ result' = process_result(user_input, static_structurer[<< user_input, framework >>])
  /\ pc' = "returned"

\* Mutant: the whitespace-only case is forgotten.
input_is_empty_NoStrip(text) ==
  Len(text) = 0

\* not user_input or not user_input.strip()
input_is_empty(text) ==
  Len(text) = 0 \/ Len(strip(text)) = 0

\* Mutant: the last attempt is taken to be one later.
is_last_attempt_OffByOne(n) ==
  n = MAX_RETRIES + 1

\* attempt == self.MAX_RETRIES
is_last_attempt(n) ==
  n = MAX_RETRIES

\* Mutant: the test of the violation list is inverted.
accepts_Inverted(found) ==
  Len(found) # 0

\* not violations
accepts(found) ==
  Len(found) = 0

\* A caller invokes process(u, e, f) on the idle system.
Process(u, e, f) ==
  /\ pc = "idle"
  /\ pc' = "check_input"
  /\ user_input' = u
  /\ explicit_framework' = e
  /\ force_static' = f
  /\ cleaned_input' = None
  /\ framework' = "none"
  /\ confidence' = 0
  /\ attempt' = 0
  /\ violation_history' = << >>
  /\ generated' = None
  /\ generate_calls' = 0
  /\ attempt_log' = << >>
  /\ result' = None
  /\ raised' = "none"
  /\ UNCHANGED outer

\* if not user_input or not user_input.strip(): raise ValueError
RejectEmpty ==
  /\ pc = "check_input"
  /\ input_is_empty(user_input)
  /\ raised' = "ValueError"
  /\ pc' = "raised"
  /\ UNCHANGED << args, cleaned_input, framework, confidence, attempt, violation_history,
                  generated, generate_calls, attempt_log, result >>
  /\ UNCHANGED outer

\* cleaned_input = ...; framework, confidence = self._resolve_framework(explicit_framework)
ResolveExplicit ==
  /\ pc = "check_input"
  /\ ~input_is_empty(user_input)
  /\ truthy(explicit_framework)
  /\ cleaned_input' = Str(clean_input(user_input))
  /\ LET resolved == resolve_framework(explicit_framework.v)
     IN  framework' = resolved[1] /\ confidence' = resolved[2]
  /\ pc' = "resolved"
  /\ UNCHANGED << args, attempt, violation_history, generated, generate_calls,
                  attempt_log, result, raised >>
  /\ UNCHANGED outer

\* cleaned_input = ...; framework, confidence, _ = self.classifier.classify(user_input)
Classify ==
  /\ pc = "check_input"
  /\ ~input_is_empty(user_input)
  /\ ~truthy(explicit_framework)
  /\ cleaned_input' = Str(clean_input(user_input))
  /\ LET classified == classify(user_input)
     IN  framework' = classified[1] /\ confidence' = classified[2]
  /\ pc' = "resolved"
  /\ UNCHANGED << args, attempt, violation_history, generated, generate_calls,
                  attempt_log, result, raised >>
  /\ UNCHANGED outer

\* Mutant: force_static is looked at only after the provider has been tried.
ForceStatic_TriesProvider ==
  /\ pc = "resolved"
  /\ force_static
  /\ violation_history' = << >>
  /\ attempt' = 0
  /\ pc' = "generate"
  /\ UNCHANGED << args, cleaned_input, framework, confidence, generated, generate_calls,
                  attempt_log, result, raised >>
  /\ UNCHANGED outer

\* if force_static: return self.static_structurer.structure(user_input, framework)
ForceStatic ==
  /\ pc = "resolved"
  /\ force_static
  /\ ReturnStatic
  /\ UNCHANGED << args, cleaned_input, framework, confidence, attempt, violation_history,
                  generated, generate_calls, attempt_log, raised >>
  /\ UNCHANGED outer

\* violation_history = []; for attempt in range(self.MAX_RETRIES + 1):
EnterLoop ==
  /\ pc = "resolved"
  /\ ~force_static
  /\ violation_history' = << >>
  /\ attempt' = 0
  /\ pc' = "generate"
  /\ UNCHANGED << args, cleaned_input, framework, confidence, generated, generate_calls,
                  attempt_log, result, raised >>
  /\ UNCHANGED outer

\* Mutant: the provider is called without looking at is_available.
ProviderUnavailable_CallsGenerate ==
  /\ pc = "generate"
  /\ generate_calls' = generate_calls + 1
  /\ generated' = generate(FALSE, [ kind |-> "http", status |-> 200,
                                     body |-> [ json |-> TRUE, has_content |-> TRUE,
                                                content |-> Str(VALID_TEXT) ] ])
  /\ attempt_log' = Append(attempt_log, [ available |-> FALSE, generated |-> generated',
                                          request |-> None ])
  /\ pc' = "generated"
  /\ UNCHANGED << args, cleaned_input, framework, confidence, attempt, violation_history,
                  result, raised >>
  /\ UNCHANGED outer

\* _generate_with_llm when llm_provider.is_available is False: return None
ProviderUnavailable ==
  /\ pc = "generate"
  /\ generated' = None
  /\ attempt_log' = Append(attempt_log, [ available |-> FALSE, generated |-> None,
                                          request |-> None ])
  /\ pc' = "generated"
  /\ UNCHANGED << args, cleaned_input, framework, confidence, attempt, violation_history,
                  generate_calls, result, raised >>
  /\ UNCHANGED outer

\* _generate_with_llm when llm_provider.is_available is True: one call of
\* llm_provider.generate, whose HTTP exchange has the outcome response.
ProviderGenerate(response) ==
  /\ pc = "generate"
  /\ generate_calls' = generate_calls + 1
  /\ generated' = generate(TRUE, response)
  /\ attempt_log' = Append(attempt_log,
                        [ available |-> TRUE, generated |-> generated',
                          request |-> generate_request(user_input, framework, attempt,
                                                       violation_history) ])
  /\ pc' = "generated"
  /\ UNCHANGED << args, cleaned_input, framework, confidence, attempt, violation_history,
                  result, raised >>
  /\ UNCHANGED outer

\* if generated is None: fall back on the last attempt, else continue
GenerationFailed ==
  /\ pc = "generated"
  /\ generated = None
  /\ IF is_last_attempt(attempt)
       THEN ReturnStatic /\ UNCHANGED attempt
       ELSE attempt' = attempt + 1 /\ pc' = "generate" /\ UNCHANGED result
  /\ UNCHANGED << args, cleaned_input, framework, confidence, violation_history, generated,
                  generate_calls, attempt_log, raised >>
  /\ UNCHANGED outer

\* violations = self.validator.validate(generated) on a value that is not a
\* str: text.lower() raises AttributeError.
ValidateRaises ==
  /\ pc = "generated"
  /\ generated # None
  /\ generated.t # "str"
  /\ raised' = "AttributeError"
  /\ pc' = "raised"
  /\ UNCHANGED << args, cleaned_input, framework, confidence, attempt, violation_history,
                  generated, generate_calls, attempt_log, result >>
  /\ UNCHANGED outer

\* violations = self.validator.validate(generated): accept, or extend the
\* history and either fall back (last attempt) or continue.
Validate ==
  /\ pc = "generated"
  /\ generated # None
  /\ generated.t = "str"
  /\ LET violations == validate(generated.v)
     IN  IF accepts(violations)
           THEN /\ result' = process_result(user_input,
                               OptimizedPrompt(framework, spec_name[framework], generated.v,
                                               TRUE, << >>, confidence, "dynamic"))
                /\ pc' = "returned"
                /\ UNCHANGED << attempt, violation_history >>
         ELSE /\ violation_history' = violation_history \o violations
              /\ IF is_last_attempt(attempt)
                   THEN ReturnStatic /\ UNCHANGED attempt
                   ELSE attempt' = attempt + 1 /\ pc' = "generate" /\ UNCHANGED result
  /\ UNCHANGED << args, cleaned_input, framework, confidence, generated, generate_calls,
                  attempt_log, raised >>
  /\ UNCHANGED outer

\* The caller takes the returned dict or the exception; the frames of
\* process() and optimize() and their locals are gone.
Finish ==
  /\ pc \in { "returned", "raised" }
  /\ pc' = "idle"
  /\ user_input' = ""
  /\ explicit_framework' = None
  /\ force_static' = FALSE
  /\ cleaned_input' = None
  /\ framework' = "none"
  /\ confidence' = 0
  /\ attempt' = 0
  /\ violation_history' = << >>
  /\ generated' = None
  /\ generate_calls' = 0
  /\ attempt_log' = << >>
  /\ result' = None
  /\ raised' = "none"
  /\ UNCHANGED outer

Next ==
  \/ \E u \in UserInputs, e \in ExplicitFrameworks, f \in BOOLEAN : Process(u, e, f)
  \/ RejectEmpty
  \/ ResolveExplicit
  \/ Classify
  \/ ForceStatic
  \/ EnterLoop
  \/ ProviderUnavailable
  \/ \E response \in Responses : ProviderGenerate(response)
  \/ GenerationFailed
  \/ ValidateRaises
  \/ Validate
  \/ Finish

Spec ==
  Init /\ [][Next]_vars

\* ------------------------------------------------------------------------
\* Properties
\* ------------------------------------------------------------------------

TypeOK ==
  /\ pc \in { "idle", "check_input", "resolved", "generate", "generated", "returned", "raised" }
  /\ user_input \in UserInputs
  /\ explicit_framework \in ExplicitFrameworks
  /\ force_static \in BOOLEAN
  /\ framework \in Frameworks \cup { "none" }
  /\ confidence \in 0..100
  /\ attempt \in 0..MAX_RETRIES
  /\ generate_calls \in 0..(MAX_RETRIES + 1)
  /\ raised \in { "none", "ValueError", "AttributeError" }
  /\ (pc = "returned") = (result # None)
  /\ (pc = "raised") = (raised # "none")

\* Every character of s is whitespace (the empty string included).
IsBlank(s) ==
  \A i \in 1..Len(s) : Char(s, i) \in WHITESPACE

MinOf(S) ==
  CHOOSE i \in S : \A j \in S : i <= j

\* The text has the seven headers and no forbidden word as a whole word.
StructurallyValid(text) ==
  /\ \A k \in 1..Len(MANDATORY_SECTIONS) : contains(MANDATORY_SECTIONS[k], text)
  /\ \A k \in 1..Len(FORBIDDEN_WORDS) : ~re_search_word(FORBIDDEN_WORDS[k], lower(text))

\* Attempt i of the current call yielded a text.
YieldedText(i) ==
  attempt_log[i].generated.t = "str"

\* The static result for the arguments and the framework of the current call.
StaticResult ==
  process_result(user_input, static_structurer[<< user_input, framework >>])

\* C1: whatever the input, explicit_framework, force_static and the LLM's
\* behaviour, the result process() returns has valid = True and a prompt
\* with the seven mandatory headers and no forbidden word as a whole word.
C1_ResultStructurallyValid ==
  pc = "returned" =>
    /\ result.valid
    /\ StructurallyValid(result.optimized_prompt)

\* C2: the result of StaticStructurer.structure(input, F) has valid = True,
\* no violations, the seven headers and no forbidden word, for every
\* framework F and every non-empty input.
C2_StaticAlwaysValid ==
  (pc = "returned" /\ result.generation_mode = "static") =>
    /\ result.valid
    /\ result.violations = << >>
    /\ StructurallyValid(result.optimized_prompt)

\* Every attempt of the current call yielded a text that fails validation.
C3_AllAttemptsInvalid ==
  /\ Len(attempt_log) >= 1
  /\ \A i \in 1..Len(attempt_log) :
       YieldedText(i) /\ validate(attempt_log[i].generated.v) # << >>

\* C3: optimize() makes at most MAX_RETRIES + 1 = 3 generation attempts (the
\* attempts made are counted by the loop index, which only grows and stays
\* below 3), and when every attempt yields text that fails validation it
\* returns the StaticStructurer result with generation_mode "static".
C3_RetryBound ==
  /\ Len(attempt_log) <= 3
  /\ generate_calls <= Len(attempt_log)
  /\ attempt < 3
  /\ pc = "generate" => Len(attempt_log) = attempt
  /\ pc = "generated" => Len(attempt_log) = attempt + 1
  /\ (pc = "returned" /\ C3_AllAttemptsInvalid) =>
       /\ Len(attempt_log) = 3
       /\ result.generation_mode = "static"
       /\ result = StaticResult

C3_Witness ==
  /\ pc = "returned"
  /\ C3_AllAttemptsInvalid
  /\ Len(attempt_log) = 3
  /\ result.generation_mode = "static"

\* Attempt i of the current call yielded a text with zero violations.
C4_ValidAt(i) ==
  YieldedText(i) /\ validate(attempt_log[i].generated.v) = << >>

\* C4: the attempt whose text has zero violations is the last one, and
\* optimize() returns its text: when the text of attempt 1 is valid, exactly
\* one generate call was made and the result is dynamic, valid and free of
\* violations.
C4_AcceptFirstValid ==
  /\ \A i \in 1..Len(attempt_log) :
       C4_ValidAt(i) =>
         /\ i = Len(attempt_log)
         /\ pc \in { "generated", "returned" }
         /\ pc = "returned" =>
              /\ result.generation_mode = "dynamic"
              /\ result.optimized_prompt = attempt_log[i].generated.v
  /\ (pc = "returned" /\ Len(attempt_log) >= 1 /\ C4_ValidAt(1)) =>
       /\ Len(attempt_log) = 1
       /\ generate_calls = 1
       /\ result.generation_mode = "dynamic"
       /\ result.valid
       /\ result.violations = << >>

C4_Witness ==
  /\ pc = "returned"
  /\ Len(attempt_log) = 1
  /\ C4_ValidAt(1)
  /\ generate_calls = 1
  /\ result.generation_mode = "dynamic"

\* C5: generate is called exactly in the attempts that read is_available as
\* True, an attempt that read False yields None, and a call in which every
\* attempt read False makes no generate call and returns the
\* StaticStructurer result with generation_mode "static".
C5_AvailabilityGuardsGenerate ==
  /\ generate_calls = Cardinality({ i \in 1..Len(attempt_log) : attempt_log[i].available })
  /\ \A i \in 1..Len(attempt_log) :
       ~attempt_log[i].available => attempt_log[i].generated = None
  /\ ( /\ pc = "returned"
       /\ Len(attempt_log) >= 1
       /\ \A i \in 1..Len(attempt_log) : ~attempt_log[i].available ) =>
       /\ generate_calls = 0
       /\ result.generation_mode = "static"
       /\ result = StaticResult

C5_Witness ==
  /\ pc = "returned"
  /\ Len(attempt_log) = 3
  /\ \A i \in 1..3 : ~attempt_log[i].available
  /\ generate_calls = 0
  /\ result.generation_mode = "static"

\* C6: an empty or whitespace-only input raises the input error before any
\* other step (no cleaned input, no framework, no attempt, no generate
\* call), and an input with a non-whitespace character never raises it.
C6_EmptyInputRejectedFirst ==
  /\ (IsBlank(user_input) /\ pc \notin { "idle", "check_input" }) =>
       /\ pc = "raised"
       /\ raised = "ValueError"
       /\ cleaned_input = None
       /\ framework = "none"
       /\ confidence = 0
       /\ attempt_log = << >>
       /\ generate_calls = 0
  /\ ~IsBlank(user_input) => raised # "ValueError"

C6_Witness ==
  /\ pc = "raised"
  /\ raised = "ValueError"
  /\ Len(user_input) > 0
  /\ IsBlank(user_input)

\* C7: for a non-empty input no failure of the LLM provider reaches the
\* caller: the only exception optimize() raises is the empty-input error.
C7_OnlyInputErrorRaised ==
  pc = "raised" => (raised = "ValueError" /\ IsBlank(user_input))

\* C8: with explicit_framework equal to the identifier of framework F and a
\* non-empty text, framework F is selected with confidence 1.0, and every
\* result, dynamic or static, carries F's identifier and confidence 1.0.
C8_ExplicitIdSelected ==
  \A f \in Frameworks :
    ( /\ explicit_framework = Str(FrameworkValue[f])
      /\ pc \notin { "idle", "check_input" }
      /\ ~IsBlank(user_input) ) =>
      /\ framework = f
      /\ confidence = 100
      /\ pc = "returned" =>
           /\ result.framework.id = FrameworkValue[f]
           /\ result.confidence = 100

C8_Witness ==
  /\ pc = "returned"
  /\ user_input = "build"
  /\ explicit_framework = Str("creative_ideation")
  /\ result.generation_mode = "dynamic"
  /\ result.framework.id = "creative_ideation"
  /\ result.confidence = 100

\* The positions, in declaration order, of the frameworks whose identifier
\* or lowercased enum name equals name / contains name, and the positions of
\* the keywords of the keyword map that name contains.
C9_Exact(name) ==
  { i \in 1..Len(Framework) : name \in { FrameworkValue[Framework[i]], lower(Framework[i]) } }

C9_Partial(name) ==
  { i \in 1..Len(Framework) :
      contains(name, FrameworkValue[Framework[i]]) \/ contains(name, lower(Framework[i])) }

C9_Keyword(name) ==
  { k \in 1..Len(keyword_map) : contains(keyword_map[k][1], name) }

C9_Expected(name) ==
  IF C9_Exact(name) # {} THEN << Framework[MinOf(C9_Exact(name))], 100 >>
  ELSE IF C9_Partial(name) # {} THEN << Framework[MinOf(C9_Partial(name))], 90 >>
  ELSE IF C9_Keyword(name) # {} THEN << keyword_map[MinOf(C9_Keyword(name))][2], 80 >>
  ELSE << "CODING", 50 >>

\* C9: the framework and confidence resolved from an explicit name are those
\* of the first tier that matches the lowercased, stripped name: exact
\* (1.0), else first framework in declaration order containing it (0.9),
\* else first keyword of the map it contains (0.8), else CODING (0.5).
C9_TierPrecedence ==
  (truthy(explicit_framework) /\ framework # "none") =>
    << framework, confidence >> = C9_Expected(strip(lower(explicit_framework.v)))

C9_Witness ==
  /\ pc = "resolved"
  /\ explicit_framework = Str("learning")
  /\ C9_Keyword("learning") # {}
  /\ framework = "TEACHING"
  /\ confidence = 90

\* The explicit name of the current call is resolved by no tier.
C10_Unresolved ==
  /\ truthy(explicit_framework)
  /\ LET name == strip(lower(explicit_framework.v))
     IN  C9_Exact(name) = {} /\ C9_Partial(name) = {} /\ C9_Keyword(name) = {}

\* C10: with an explicit name that no tier resolves, process() raises no
\* exception and returns the default framework with confidence 0.5 and a
\* reasoning that notes the unresolved name, on every path.
C10_UnresolvedNameDefaults ==
  (C10_Unresolved /\ ~IsBlank(user_input) /\ pc \in { "returned", "raised" }) =>
    /\ pc = "returned"
    /\ result.framework.id = "coding_technical"
    /\ result.confidence = 50
    /\ contains(strip(lower(explicit_framework.v)), lower(result.reasoning))

\* ------------------------------------------------------------------------
\* FrameworkClassifier.classify and OutputValidator.validate called on their own
\* ------------------------------------------------------------------------

\* The value a function returned.
Returned(value) ==
  [ t |-> "returned", v |-> value ]

\* Pieces of text: with and without triggers, with forbidden words inside
\* longer words, standing alone, in upper case, next to punctuation.
TextFragments ==
  { "", "zzz999 no keywords at all", "coding", "this or that", "THIS OR THAT",
    "Editor MAYBE", "can be", "Can  Be", "or_else", "either/or", "Kind Of", "kind-of",
    "build an api", "write code or tests", "explain", "teach me to code",
    "design a strategy", "please build it", "could maybe you", "kind kind of of",
    "fix code api debug app script" }

\* What stands under each mandatory header in the documents of the model.
SectionBodies ==
  << "Engineer", "Web", "Build", "Core", "None", "1. Do", "Code" >>

\* The document with the headers whose index is in present, in section order.
document(present) ==
  LET kept == SelectSeq([ k \in 1..Len(MANDATORY_SECTIONS) |-> k ], LAMBDA k : k \in present)
  IN  join("\n\n", [ i \in 1..Len(kept) |->
                      MANDATORY_SECTIONS[kept[i]] \o "\n" \o SectionBodies[kept[i]] ])

\* All headers, all but one, the first and the last, none.
HeaderSets ==
  { 1..7, {}, { 1, 7 } } \cup { (1..7) \ { k } : k \in 1..7 }

Texts ==
  { IF present = {} THEN fragment ELSE document(present) \o "\n" \o fragment :
      present \in HeaderSets, fragment \in TextFragments }

text_vars ==
  << arg_text, classify_returned, validate_returned, clean_returned >>

call_vars ==
  << pc, user_input, explicit_framework, force_static, cleaned_input, framework,
     confidence, attempt, violation_history, generated, generate_calls, attempt_log,
     result, raised >>

server_vars ==
  << llm_service, config, api_pc, http_request, validated, llm_exchange, llm_outcome, http_response >>

\* A caller holds a text and has called neither function yet.
InitText ==
  /\ NoCall
  /\ NoOtherCall
  /\ arg_text \in Texts
  /\ classify_returned = None
  /\ validate_returned = None
  /\ clean_returned = None
  /\ llm_service = None
  /\ config = Config
  /\ NoRequest

\* classifier.classify(arg_text)
ClassifyText ==
  /\ classify_returned = None
  /\ classify_returned' = Returned(classify(arg_text))
  /\ UNCHANGED << arg_text, validate_returned, clean_returned >>
  /\ UNCHANGED << call_vars, suspended, server_vars >>

\* OutputValidator.validate(arg_text)
ValidateText ==
  /\ validate_returned = None
  /\ validate_returned' = Returned(validate(arg_text))
  /\ UNCHANGED << arg_text, classify_returned, clean_returned >>
  /\ UNCHANGED << call_vars, suspended, server_vars >>

\* StaticStructurer._clean_input(arg_text)
CleanText ==
  /\ clean_returned = None
  /\ clean_returned' = Returned(clean_input(arg_text))
  /\ UNCHANGED << arg_text, classify_returned, validate_returned >>
  /\ UNCHANGED << call_vars, suspended, server_vars >>

NextText ==
  \/ ClassifyText
  \/ ValidateText
  \/ CleanText

SpecText ==
  InitText /\ [][NextText]_vars

\* No trigger of any framework is a substring of the lowercased text.
NoTrigger(text) ==
  \A f \in Frameworks : \A k \in 1..Len(spec_triggers[f]) :
     ~contains(spec_triggers[f][k], lower(text))

\* C11: classify(T), for a text T in which no trigger of any framework
\* occurs, returns the default framework with confidence 0.5 and reasoning
\* "Default classification"; whatever T, it returns a framework.
C11_DefaultClassification ==
  classify_returned # None =>
    /\ classify_returned.v[1] \in Frameworks
    /\ NoTrigger(arg_text) =>
         classify_returned.v = << "CODING", 50, "Default classification" >>

C11_Witness ==
  /\ arg_text = "zzz999 no keywords at all"
  /\ NoTrigger(arg_text)
  /\ classify_returned # None
  /\ classify_returned.v[2] = 50

\* word stands in text as a whole word, in any letter case: no \w character
\* right before it nor right after it.
OccursAsWord(word, text) ==
  \E i \in 0..(Len(text) - Len(word)) :
     /\ lower(SubSeq(text, i + 1, i + Len(word))) = word
     /\ i = 0 \/ Char(text, i) \notin WORD_CHARS
     /\ i + Len(word) = Len(text) \/ Char(text, i + Len(word) + 1) \notin WORD_CHARS

\* The indices, in increasing order, of the forbidden words standing in text.
WordsStanding(text) ==
  SelectSeq([ k \in 1..Len(FORBIDDEN_WORDS) |-> k ],
            LAMBDA k : OccursAsWord(FORBIDDEN_WORDS[k], text))

\* The indices, in increasing order, of the headers absent from text.
HeadersAbsent(text) ==
  SelectSeq([ k \in 1..Len(MANDATORY_SECTIONS) |-> k ],
            LAMBDA k : ~contains(MANDATORY_SECTIONS[k], text))

\* C12: validate(T) returns the forbidden-word violations in the order of
\* the forbidden-word list, then one "Missing mandatory section" entry per
\* header absent from T in the order of the section list; it is empty
\* exactly when T has the seven headers and no forbidden word as a whole
\* word in any letter case.
C12_ViolationOrder ==
  validate_returned # None =>
    LET words == WordsStanding(arg_text)
        absent == HeadersAbsent(arg_text)
        found == validate_returned.v
    IN  /\ Len(found) = Len(words) + Len(absent)
        /\ \A i \in 1..Len(words) : found[i] = forbidden_violation(FORBIDDEN_WORDS[words[i]])
        /\ \A i \in 1..Len(absent) :
             found[Len(words) + i] = missing_violation(MANDATORY_SECTIONS[absent[i]])
        /\ (found = << >>) =
             /\ \A k \in 1..Len(MANDATORY_SECTIONS) : contains(MANDATORY_SECTIONS[k], arg_text)
             /\ \A k \in 1..Len(FORBIDDEN_WORDS) : ~OccursAsWord(FORBIDDEN_WORDS[k], arg_text)

C12_Witness ==
  /\ validate_returned # None
  /\ Len(WordsStanding(arg_text)) >= 2
  /\ Len(HeadersAbsent(arg_text)) >= 2
  /\ Len(validate_returned.v) >= 4

\* word is in text, in some letter case, but only inside longer words.
OnlyInsideWords(word, text) ==
  contains(word, lower(text)) /\ ~OccursAsWord(word, text)

\* The violations validate() returned, as a set.
ViolationsReturned ==
  { validate_returned.v[i] : i \in 1..Len(validate_returned.v) }

\* C13: validate() detects a forbidden word as a whole word only and in any
\* letter case: a forbidden word that is only inside longer words of the
\* text ("or" in "Editor") gives no violation for it, and one that stands
\* alone, whatever its case ("or" in "this or that", "MAYBE"), gives the
\* violation.
C13_WholeWordAnyCase ==
  validate_returned # None =>
    \A k \in 1..Len(FORBIDDEN_WORDS) :
       LET word == FORBIDDEN_WORDS[k]
       IN  /\ OnlyInsideWords(word, arg_text) =>
                forbidden_violation(word) \notin ViolationsReturned
           /\ OccursAsWord(word, arg_text) => forbidden_violation(word) \in ViolationsReturned

C13_Witness ==
  /\ arg_text = "Editor MAYBE"
  /\ validate_returned # None
  /\ OnlyInsideWords("or", arg_text)
  /\ forbidden_violation("or") \notin ViolationsReturned
  /\ forbidden_violation("maybe") \in ViolationsReturned

\* C14: the OptimizedPrompt optimize() returns, on every path, has an empty
\* violations list exactly when valid is True, a generation_mode that is
\* "static" or "dynamic", and valid = True whenever the mode is "dynamic".
C14_ResultConsistent ==
  pc = "returned" =>
    /\ (result.violations = << >>) = result.valid
    /\ result.generation_mode \in { "static", "dynamic" }
    /\ result.generation_mode = "dynamic" => result.valid

C14_Witness ==
  /\ pc = "returned"
  /\ result.generation_mode = "dynamic"
  /\ result.valid
  /\ result.violations = << >>
  /\ Len(attempt_log) = 2

\* The framework step 2 of optimize() resolves for the arguments of the call.
ResolvedFramework ==
  IF truthy(explicit_framework) THEN resolve_framework(explicit_framework.v)[1]
  ELSE classify(user_input)[1]

\* C16: with force_static set and a non-empty input, optimize() never reads
\* is_available and never calls generate, and it returns
\* StaticStructurer.structure(input, framework) for the framework step 2
\* resolved, with confidence 1.0 and generation_mode "static".
C16_ForceStaticSkipsProvider ==
  force_static =>
    /\ attempt_log = << >>
    /\ generate_calls = 0
    /\ pc \notin { "generate", "generated" }
    /\ pc = "returned" =>
         /\ result = process_result(user_input,
                                    static_structurer[<< user_input, ResolvedFramework >>])
         /\ result.confidence = 100
         /\ result.generation_mode = "static"

C16_Witness ==
  /\ pc = "returned"
  /\ force_static
  /\ truthy(explicit_framework)
  /\ ResolvedFramework = "CREATIVE"
  /\ result.framework.id = "creative_ideation"
  /\ result.generation_mode = "static"

\* ------------------------------------------------------------------------
\* Two calls of process() in flight on one PromptOptimizationSystem
\* ------------------------------------------------------------------------

\* The frame of the running call: the arguments and locals of process() and
\* optimize(), and what the call returned or raised.
frame ==
  [ pc |-> pc, user_input |-> user_input, explicit_framework |-> explicit_framework,
    force_static |-> force_static, cleaned_input |-> cleaned_input, framework |-> framework,
    confidence |-> confidence, attempt |-> attempt, violation_history |-> violation_history,
    generated |-> generated, generate_calls |-> generate_calls, attempt_log |-> attempt_log,
    result |-> result, raised |-> raised ]

ConcurrentInputs ==
  { "build", "   " }

ConcurrentFrameworks ==
  { None, Str("zzz") }

\* A valid text, a text that lacks sections, a content that is not a string.
ConcurrentResponses ==
  { [ kind |-> "http", status |-> 200,
      body |-> [ json |-> TRUE, has_content |-> TRUE, content |-> c ] ] :
      c \in { Str(VALID_TEXT), Str("ROLE\nEngineer"), Num(42) } }

\* Mutant: the attempt counter is kept on the optimizer, not in the frame.
ContextSwitch_SharedAttempt ==
  /\ suspended' = frame
  /\ pc' = suspended.pc
  /\ user_input' = suspended.user_input
  /\ explicit_framework' = suspended.explicit_framework
  /\ force_static' = suspended.force_static
  /\ cleaned_input' = suspended.cleaned_input
  /\ framework' = suspended.framework
  /\ confidence' = suspended.confidence
  /\ attempt' = attempt
  /\ violation_history' = suspended.violation_history
  /\ generated' = suspended.generated
  /\ generate_calls' = suspended.generate_calls
  /\ attempt_log' = suspended.attempt_log
  /\ result' = suspended.result
  /\ raised' = suspended.raised
  /\ UNCHANGED << text_vars, server_vars >>

\* The thread of the running call is preempted and the thread of the other
\* call runs: each call has its own arguments and locals, and the objects
\* both read (registry, classifier, validator, provider) are not written.
ContextSwitch ==
  /\ suspended' = frame
  /\ pc' = suspended.pc
  /\ user_input' = suspended.user_input
  /\ explicit_framework' = suspended.explicit_framework
  /\ force_static' = suspended.force_static
  /\ cleaned_input' = suspended.cleaned_input
  /\ framework' = suspended.framework
  /\ confidence' = suspended.confidence
  /\ attempt' = suspended.attempt
  /\ violation_history' = suspended.violation_history
  /\ generated' = suspended.generated
  /\ generate_calls' = suspended.generate_calls
  /\ attempt_log' = suspended.attempt_log
  /\ result' = suspended.result
  /\ raised' = suspended.raised
  /\ UNCHANGED << text_vars, server_vars >>

NextCalls ==
  \/ \E u \in ConcurrentInputs, e \in ConcurrentFrameworks, f \in BOOLEAN : Process(u, e, f)
  \/ RejectEmpty
  \/ ResolveExplicit
  \/ Classify
  \/ ForceStatic
  \/ EnterLoop
  \/ ProviderUnavailable
  \/ \E response \in ConcurrentResponses : ProviderGenerate(response)
  \/ GenerationFailed
  \/ ValidateRaises
  \/ Validate
  \/ Finish
  \/ ContextSwitch

SpecCalls ==
  Init /\ [][NextCalls]_vars

\* The outcome of a call that consumed exactly the used first entries of log.
Outcome(kind, value, used, log) ==
  IF used = Len(log) THEN [ t |-> kind, v |-> value ] ELSE [ t |-> "overrun", v |-> None ]

RECURSIVE attempts_alone(_, _, _, _, _)
\* What the loop of optimize() gives from attempt n on when the calls of
\* _generate_with_llm return what log records, nothing else being in flight.
attempts_alone(u, fw, conf, log, n) ==
  IF n >= Len(log) THEN [ t |-> "pending", v |-> None ]
  ELSE LET text == log[n + 1].generated
           static == process_result(u, static_structurer[<< u, fw >>])
       IN  IF text = None
             THEN IF n = MAX_RETRIES THEN Outcome("returned", static, n + 1, log)
                  ELSE attempts_alone(u, fw, conf, log, n + 1)
           ELSE IF text.t # "str" THEN Outcome("raised", "AttributeError", n + 1, log)
           ELSE IF validate(text.v) = << >>
             THEN Outcome("returned",
                          process_result(u, OptimizedPrompt(fw, spec_name[fw], text.v, TRUE,
                                                            << >>, conf, "dynamic")),
                          n + 1, log)
           ELSE IF n = MAX_RETRIES THEN Outcome("returned", static, n + 1, log)
           ELSE attempts_alone(u, fw, conf, log, n + 1)

\* What process(u, e, f) gives on a system with no other call, the provider
\* answering as log records.
process_alone(u, e, f, log) ==
  IF Len(strip(u)) = 0 THEN Outcome("raised", "ValueError", 0, log)
  ELSE LET resolved == IF truthy(e) THEN resolve_framework(e.v)
                       ELSE << classify(u)[1], classify(u)[2] >>
       IN  IF f THEN Outcome("returned",
                             process_result(u, static_structurer[<< u, resolved[1] >>]), 0, log)
           ELSE attempts_alone(u, resolved[1], resolved[2], log, 0)

\* The call with frame fr, once over, gave what it gives alone.
AsAlone(fr) ==
  LET alone == process_alone(fr.user_input, fr.explicit_framework, fr.force_static,
                             fr.attempt_log)
  IN  /\ fr.pc = "returned" => alone.t = "returned" /\ alone.v = fr.result
      /\ fr.pc = "raised" => alone.t = "raised" /\ alone.v = fr.raised

\* The call with frame fr has classified its input.
HasClassified(fr) ==
  /\ fr.pc \in { "resolved", "generate", "generated", "returned" }
  /\ ~truthy(fr.explicit_framework)

Bool(b) ==
  [ t |-> "bool", v |-> b ]

\* A JSON array and a JSON object (a function from its keys to values).
List(items) ==
  [ t |-> "list", v |-> items ]

Dict(fields) ==
  [ t |-> "dict", v |-> fields ]

\* bool(value)
json_truthy(value) ==
  CASE value.t = "none" -> FALSE
    [] value.t = "str" -> Len(value.v) > 0
    [] value.t = "int" -> value.v # 0
    [] value.t = "bool" -> value.v
    [] value.t = "list" -> Len(value.v) > 0
    [] value.t = "dict" -> DOMAIN value.v # {}

\* d.get(key, default) of a dict d
dict_get(d, key, default) ==
  IF key \in DOMAIN d.v THEN d.v[key] ELSE default

\* An exception of middleware.validation, with its attributes.
ValidationError(message, field, status_code) ==
  [ t |-> "raised", exception |-> "ValidationError", message |-> message, field |-> field,
    status_code |-> status_code ]

\* re.search(r"<script\b", s) is not None
search_script_tag(s) ==
  \E i \in 0..(Len(s) - 7) : SubSeq(s, i + 1, i + 7) = "<script" /\ word_boundary(s, i + 7)

\* re.search of opening, then .* (no newline), then closing
search_enclosed(opening, closing, s) ==
  \E i \in 0..(Len(s) - Len(opening)) :
     /\ SubSeq(s, i + 1, i + Len(opening)) = opening
     /\ \E j \in (i + Len(opening))..(Len(s) - Len(closing)) :
           /\ SubSeq(s, j + 1, j + Len(closing)) = closing
           /\ \A k \in (i + Len(opening) + 1)..j : Char(s, k) # "\n"

\* _contains_suspicious_patterns(text)
contains_suspicious_patterns(text) ==
  LET text_lower == lower(text)
  IN  \/ search_script_tag(text_lower)
      \/ contains("javascript:", text_lower)
      \/ contains("data:text/html", text_lower)
      \/ search_enclosed("{{", "}}", text_lower)
      \/ search_enclosed("${", "}", text_lower)

\* re.match(r"^[a-z_]+$", s) is not None, for s without a trailing newline
match_framework_format(s) ==
  Len(s) > 0 /\ \A i \in 1..Len(s) : Char(s, i) \in CharsOf(ASCII_LOWERCASE) \cup { "_" }

\* Mutant: the prompt is checked but returned as it came.
validated_prompt_Unstripped(prompt) ==
  prompt.v

\* prompt = prompt.strip()
validated_prompt(prompt) ==
  strip(prompt.v)

\* Step 3 of validate_prompt_input: the framework field.
validate_framework_field(prompt, fw) ==
  IF fw = None THEN Returned(<< prompt, None >>)
  ELSE IF fw.t # "str" THEN ValidationError("Framework must be a string", "framework", 400)
  ELSE LET normalized == lower(strip(fw.v))
       IN  IF ~match_framework_format(normalized)
             THEN ValidationError("Framework must contain only lowercase letters and underscores",
                                  "framework", 400)
           ELSE Returned(<< prompt, Str(normalized) >>)

\* validate_prompt_input(data, max_length, min_length), the prompt required
validate_prompt_input(data, max_length, min_length) ==
  IF data = None THEN ValidationError("Request body must be JSON", "", 400)
  ELSE IF data.t # "dict" THEN ValidationError("Request body must be a JSON object", "", 400)
  ELSE LET prompt == dict_get(data, "prompt", None)
           fw == dict_get(data, "framework", None)
       IN  IF ~json_truthy(prompt) THEN ValidationError("Prompt is required", "prompt", 400)
           ELSE IF prompt.t # "str"
             THEN ValidationError("Prompt must be a string", "prompt", 400)
           ELSE LET stripped == validated_prompt(prompt)
                IN  IF Len(stripped) < min_length
                      THEN ValidationError("Prompt must be at least " \o int_str(min_length)
                                             \o " characters", "prompt", 400)
                    ELSE IF Len(stripped) > max_length
                      THEN ValidationError("Prompt must not exceed " \o int_str(max_length)
                                             \o " characters", "prompt", 400)
                    ELSE IF contains_suspicious_patterns(stripped)
                      THEN ValidationError("Prompt contains invalid content", "prompt", 400)
                    ELSE validate_framework_field(stripped, fw)

\* validate_content_type() for a POST request
validate_content_type(content_type) ==
  IF ~contains("application/json", content_type)
    THEN ValidationError("Content-Type must be application/json", "", 415)
  ELSE Returned(None)

\* validate_framework_id(framework_id)
validate_framework_id(framework_id) ==
  IF Len(framework_id) = 0 THEN ValidationError("Framework ID is required", "", 400)
  ELSE LET normalized == lower(strip(framework_id))
       IN  IF ~match_framework_format(normalized)
             THEN ValidationError("Framework ID must contain only lowercase letters and underscores",
                                  "", 400)
           ELSE IF Len(normalized) > 50 THEN ValidationError("Framework ID is too long", "", 400)
           ELSE Returned(normalized)

\* ValidationError.to_dict()
to_dict(error) ==
  IF Len(error.field) > 0 THEN [ error |-> error.message, field |-> error.field ]
  ELSE [ error |-> error.message ]

\* ------------------------------------------------------------------------
\* services/llm_service.py
\* ------------------------------------------------------------------------

\* An exception of services.llm_service, with its attributes.
LLMError(message, status_code, details) ==
  [ t |-> "raised", exception |-> "LLMError", message |-> message,
    status_code |-> status_code, details |-> details ]

\* A built-in exception that nothing has caught yet.
Raises(exception) ==
  [ t |-> "raised", exception |-> exception ]

\* LLMService.model as app.py constructs it
GROQ_MODEL ==
  "llama-3.3-70b-versatile"

\* container[key]: the value, or the exception Python raises.
getitem(container, key) ==
  CASE container.t = "dict" ->
         IF key.t = "str" /\ key.v \in DOMAIN container.v THEN Returned(container.v[key.v])
         ELSE Raises("KeyError")
    [] container.t = "list" ->
         IF key.t # "int" THEN Raises("TypeError")
         ELSE IF key.v + 1 \in 1..Len(container.v) THEN Returned(container.v[key.v + 1])
         ELSE Raises("IndexError")
    [] container.t = "str" ->
         IF key.t # "int" THEN Raises("TypeError")
         ELSE IF key.v + 1 \in 1..Len(container.v) THEN Returned(Str(Char(container.v, key.v + 1)))
         ELSE Raises("IndexError")
    [] OTHER -> Raises("TypeError")

RECURSIVE getpath(_, _)
\* container[k1][k2]...: the value, or the first exception raised.
getpath(container, keys) ==
  IF Len(keys) = 0 THEN Returned(container)
  ELSE LET item == getitem(container, keys[1])
       IN  IF item.t = "raised" THEN item ELSE getpath(item.v, Tail(keys))

\* The LLMResponse dataclass.
LLMResponse(content, model, usage, finish_reason) ==
  [ content |-> content, model |-> model, usage |-> usage, finish_reason |-> finish_reason ]

\* except (KeyError, IndexError) as e: raise LLMError(...); others pass
parse_failure(exception) ==
  IF exception \in { "KeyError", "IndexError" }
    THEN LLMError("Failed to parse LLM response", 500, exception)
  ELSE Raises(exception)

\* LLMService._parse_response(response_data)
parse_response(response_data) ==
  LET choice == getpath(response_data, << Str("choices"), Num(0) >>)
  IN  IF choice.t = "raised" THEN parse_failure(choice.exception)
      ELSE LET content == getpath(choice.v, << Str("message"), Str("content") >>)
           IN  IF content.t = "raised" THEN parse_failure(content.exception)
               ELSE Returned(LLMResponse(content.v,
                                         dict_get(response_data, "model", Str(GROQ_MODEL)),
                                         dict_get(response_data, "usage", None),
                                         dict_get(choice.v, "finish_reason", None)))

\* LLMService._make_chat_request, requests.post having done what exchange
\* says: raised Timeout or another RequestException, or returned a response
\* whose json() gives a value or raises.
make_chat_request(exchange) ==
  CASE exchange.kind = "timeout" -> LLMError("LLM API request timed out", 504, "")
    [] exchange.kind = "connection_error" -> LLMError("LLM API request failed: ", 502, "")
    [] exchange.kind = "http" ->
         IF exchange.status # 200
           THEN LLMError("LLM API error: " \o int_str(exchange.status), exchange.status,
                         exchange.text)
         ELSE IF exchange.json.t = "raised"
           THEN IF exchange.json.exception = "JSONDecodeError"
                  THEN LLMError("LLM API request failed: ", 502, "")
                ELSE exchange.json
         ELSE parse_response(exchange.json)

\* LLMService.optimize_prompt
optimize_prompt(exchange) ==
  make_chat_request(exchange)

\* choices[0].message.content of a response body
ChatCompletion(content) ==
  [ choices |-> List(<< Dict([ message |-> Dict([ content |-> content ]),
                               finish_reason |-> Str("stop") ]) >>) ]

\* The JSON bodies of the model: the documented shape with and without
\* model and usage, and shapes that lack a part of the path or have another
\* type on it.
LlmBodies ==
  { Dict(ChatCompletion(Str("Optimized prompt content")) @@
           [ model |-> Str("test-model"), usage |-> Dict([ prompt_tokens |-> Num(10) ]) ]),
    Dict(ChatCompletion(Str("Optimized prompt content"))),
    Dict(ChatCompletion(None)),
    Dict(<< >>),
    Dict([ choices |-> List(<< >>) ]),
    Dict([ choices |-> None ]),
    Dict([ choices |-> List(<< Dict(<< >>) >>) ]),
    Dict([ choices |-> List(<< Dict([ message |-> None ]) >>) ]),
    Dict([ choices |-> List(<< Dict([ message |-> Str("text") ]) >>) ]),
    Dict([ choices |-> List(<< Dict([ message |-> Dict(<< >>) ]) >>) ]),
    List(<< >>) }

\* What requests.post and response.json() can do. A body that is not JSON
\* makes json() raise JSONDecodeError, a RequestException since requests
\* 2.27 and a plain ValueError before.
LlmExchanges ==
  { [ kind |-> k, status |-> 0, text |-> "", json |-> None ] :
      k \in { "timeout", "connection_error" } }
  \cup { [ kind |-> "http", status |-> 200, text |-> "", json |-> body ] : body \in LlmBodies }
  \cup { [ kind |-> "http", status |-> 200, text |-> "<html>", json |-> Raises(e) ] :
           e \in { "JSONDecodeError", "ValueError" } }
  \cup { [ kind |-> "http", status |-> code, text |-> "Internal Server Error", json |-> None ] :
           code \in { 429, 500 } }

\* ------------------------------------------------------------------------
\* PromptOptimizationSystem.list_frameworks and get_framework
\* ------------------------------------------------------------------------

spec_ideal_for ==
  [ CODING |-> << "Code generation", "System design", "Debugging", "API development" >>,
    TEACHING |-> << "Tutorials", "Educational content", "Skill building", "Onboarding" >>,
    EXPLANATION |-> << "Concept explanations", "Technical documentation", "Knowledge transfer" >>,
    RESEARCH |-> << "Market research", "Technical analysis", "Decision support", "Due diligence" >>,
    CREATIVE |-> << "UI/UX design", "Creative writing", "Brand development", "Visual concepts" >>,
    STRATEGY |-> << "Strategic planning", "Decision making", "Problem solving",
                    "Process optimization" >>,
    CONTENT |-> << "Email writing", "Blog posts", "Documentation", "Marketing copy" >> ]

\* FrameworkRegistry.get_all(): the values of the dict _build() fills, in
\* insertion order.
get_all ==
  Framework

\* items[:n]
head_slice(items, n) ==
  SubSeq(items, 1, IF Len(items) < n THEN Len(items) ELSE n)

\* The entry list_frameworks() builds for one FrameworkSpec.
framework_entry(fw) ==
  [ id |-> FrameworkValue[fw],
    name |-> spec_name[fw],
    description |-> spec_description[fw],
    ideal_for |-> spec_ideal_for[fw],
    example_inputs |-> head_slice(spec_triggers[fw], 5),
    role_personas |-> spec_targets[fw] ]

\* PromptOptimizationSystem.list_frameworks()
list_frameworks ==
  [ i \in 1..Len(get_all) |-> framework_entry(get_all[i]) ]

\* Mutant: the id is looked up among the member names of the enum.
get_framework_ByMemberName(framework_id) ==
  IF framework_id \in Frameworks
    THEN Returned(framework_entry(framework_id)
                    @@ [ trigger_keywords |-> spec_triggers[framework_id] ])
  ELSE None

\* PromptOptimizationSystem.get_framework(framework_id): Framework(framework_id)
\* finds the member by value or raises ValueError, which gives None.
get_framework(framework_id) ==
  IF \E fw \in Frameworks : FrameworkValue[fw] = framework_id
    THEN LET fw == CHOOSE f \in Frameworks : FrameworkValue[f] = framework_id
         IN  Returned(framework_entry(fw) @@ [ trigger_keywords |-> spec_triggers[fw] ])
  ELSE None

\* ------------------------------------------------------------------------
\* app.py: the routes /chat, /frameworks and /frameworks/<framework_id>
\* ------------------------------------------------------------------------

\* A key the JSON object does not have.
Absent ==
  [ t |-> "absent" ]

\* The JSON object with the keys whose value is given.
chat_body(prompt, fw, include_meta) ==
  LET given == [ prompt |-> prompt, framework |-> fw, include_meta |-> include_meta ]
  IN  Dict([ key \in { k \in DOMAIN given : given[k] # Absent } |-> given[key] ])

\* Prompt values: missing, null, empty, not a string, and the strings.
ChatPrompts ==
  { Absent, None, Str(""), Num(0), Num(123), List(<< >>) }
  \cup { Str(text) : text \in ChatPromptTexts }

\* Framework values: missing, null, an id, a padded id in upper case, a
\* name that is no id, and values the format check refuses.
ChatFrameworks ==
  { Absent, None, Str("coding_technical"), Str(" Creative_Ideation\n"), Str("zzz"),
    Str("invalid-format!"), Str(""), Str("a1"), Str("a b"), Num(5) }

\* What request.get_json(silent=True) gives for the bodies of the model.
ChatBodies ==
  { None, List(<< >>), Str("build") }
  \cup { chat_body(prompt, Absent, Absent) : prompt \in ChatPrompts }
  \cup { chat_body(Str("build"), fw, Absent) : fw \in ChatFrameworks }
  \cup { chat_body(Str("Could"), fw, Bool(TRUE)) : fw \in { Absent, Str("coding_technical") } }
  \cup { chat_body(Str("maybe"), Absent, flag) : flag \in { Bool(FALSE), Num(1), None } }

\* Bodies sent to /optimize: no JSON, no object, a prompt that is
\* missing, too short, blank, suspicious, too long or good, and a
\* framework that is good or malformed.
OptimizeBodies ==
  { None, List(<< >>) }
  \cup { chat_body(prompt, Absent, Absent) :
           prompt \in { Absent, Str(""), Num(123), Str("ab"), Str("   "), Str("  build  "),
                        Str("Could"), Str("{{x}}"), Str("a prompt that is too long") } }
  \cup { chat_body(Str("build"), fw, Absent) :
           fw \in { Str("coding_technical"), Str("invalid-format!") } }

\* The configurations of the model: the defaults, and MIN_PROMPT_LENGTH=0
\* in the environment.
Configs ==
  { Config, [ Config EXCEPT !.MIN_PROMPT_LENGTH = 0 ] }

FrameworkIds ==
  { FrameworkValue[fw] : fw \in Frameworks }
  \cup { "CODING", "coding", "Coding_Technical", " coding_technical", "coding_technical_",
         "zzz", "a-b", "x1" }

Request(route, content_type, data, framework_id) ==
  [ route |-> route, content_type |-> content_type, data |-> data,
    framework_id |-> framework_id ]

\* The requests of the model.
Requests ==
  { Request("/chat", "application/json", data, "") : data \in ChatBodies }
  \cup { Request("/chat", content_type, chat_body(Str("build"), Absent, Absent), "") :
           content_type \in { "", "text/plain", "application/json; charset=utf-8" } }
  \cup { Request("/optimize", "application/json", data, "") : data \in OptimizeBodies }
  \cup { Request("/optimize", content_type, data, "") :
           content_type \in { "", "text/plain" },
           data \in { None, chat_body(Str("build"), Absent, Absent) } }
  \cup { Request("/frameworks", "", None, "") }
  \cup { Request("/frameworks/<framework_id>", "", None, id) : id \in FrameworkIds }

\* jsonify(body), status
Response(status, body) ==
  [ status |-> status, body |-> body ]

\* handle_validation_error(error)
handle_validation_error(error) ==
  Response(error.status_code, to_dict(error))

\* handle_llm_error(error)
handle_llm_error(error) ==
  Response(error.status_code,
           IF Len(error.details) > 0 THEN [ error |-> error.message, details |-> error.details ]
           ELSE [ error |-> error.message ])

\* create_app: llm_service is an LLMService when GROQ_API_KEY is set
InitApi ==
  /\ NoCall
  /\ NoOtherCall
  /\ NoTextCall
  /\ llm_service \in { None, [ t |-> "LLMService", model |-> GROQ_MODEL ] }
  /\ config \in Configs
  /\ NoRequest

\* A request arrives at the idle application.
Receive(req) ==
  /\ api_pc = "idle"
  /\ http_request' = req
  /\ api_pc' = "received"
  /\ UNCHANGED << call_vars, suspended, text_vars, llm_service, config, validated, llm_exchange,
                  llm_outcome, http_response >>

\* chat(): if llm_service is None: return 503
ChatUnavailable ==
  /\ api_pc = "received"
  /\ http_request.route = "/chat"
  /\ llm_service = None
  /\ http_response' = Response(503,
                        [ error |-> "LLM service not configured. GROQ_API_KEY required." ])
  /\ api_pc' = "responded"
  /\ UNCHANGED << call_vars, suspended, text_vars, llm_service, config, http_request, validated,
                  llm_exchange, llm_outcome >>

\* chat(): validate_content_type(), request.get_json(silent=True),
\* validate_prompt_input(...); a ValidationError goes to its error handler.
ChatValidate ==
  /\ api_pc = "received"
  /\ http_request.route = "/chat"
  /\ llm_service # None
  /\ LET checked == validate_content_type(http_request.content_type)
         outcome == IF checked.t = "raised" THEN checked
                    ELSE validate_prompt_input(http_request.data, config.MAX_PROMPT_LENGTH,
                                               config.MIN_PROMPT_LENGTH)
     IN  /\ validated' = outcome
         /\ IF outcome.t = "raised"
              THEN http_response' = handle_validation_error(outcome) /\ api_pc' = "responded"
              ELSE UNCHANGED http_response /\ api_pc' = "validated"
  /\ UNCHANGED << call_vars, suspended, text_vars, llm_service, config, http_request, llm_exchange,
                  llm_outcome >>

\* chat(): prompt_system.process(prompt, explicit_framework=explicit_framework)
ChatProcess ==
  /\ api_pc = "validated"
  /\ http_request.route = "/chat"
  /\ Process(validated.v[1], validated.v[2], FALSE)

\* chat(): process() raised. ValueError becomes a ValidationError, any
\* other exception the 500 response.
ChatProcessFailed ==
  /\ api_pc = "validated"
  /\ http_request.route = "/chat"
  /\ pc = "raised"
  /\ http_response' = IF raised = "ValueError"
                        THEN handle_validation_error(
                               ValidationError("Input cannot be empty", "", 400))
                      ELSE Response(500, [ error |-> "Prompt optimization failed" ])
  /\ api_pc' = "responded"
  /\ UNCHANGED << call_vars, suspended, text_vars, llm_service, config, http_request, validated,
                  llm_exchange, llm_outcome >>

\* chat(): llm_service.optimize_prompt(...), whose HTTP exchange has the
\* outcome exchange.
ChatEnhance(exchange) ==
  /\ api_pc = "validated"
  /\ http_request.route = "/chat"
  /\ pc = "returned"
  /\ llm_exchange' = exchange
  /\ llm_outcome' = optimize_prompt(exchange)
  /\ api_pc' = "enhanced"
  /\ UNCHANGED << call_vars, suspended, text_vars, llm_service, config, http_request, validated,
                  http_response >>

\* The keys of opt_result the handler reads to build "metadata".
METADATA_READS ==
  << "framework", "confidence", "reasoning", "quality_metrics" >>

\* The "metadata" object, or the KeyError of the first key opt_result lacks.
chat_metadata(opt_result, llm_response) ==
  IF \E i \in 1..Len(METADATA_READS) : METADATA_READS[i] \notin DOMAIN opt_result
    THEN Raises("KeyError")
  ELSE Returned([ key \in { METADATA_READS[i] : i \in 1..Len(METADATA_READS) } |->
                    opt_result[key] ]
                @@ [ llm_model |-> llm_response.model, usage |-> llm_response.usage ])

\* chat(): the response built from the LLM's answer; LLMError goes to its
\* error handler, any other exception gives the 500 response.
chat_response(data, opt_result, outcome) ==
  IF outcome.t = "raised"
    THEN IF outcome.exception = "LLMError" THEN handle_llm_error(outcome)
         ELSE Response(500, [ error |-> "LLM processing failed" ])
  ELSE IF ~json_truthy(dict_get(data, "include_meta", Bool(FALSE)))
    THEN Response(200, [ optimized_prompt |-> outcome.v.content ])
  ELSE LET metadata == chat_metadata(opt_result, outcome.v)
       IN  IF metadata.t = "raised" THEN Response(500, [ error |-> "LLM processing failed" ])
           ELSE Response(200, [ optimized_prompt |-> outcome.v.content,
                                metadata |-> metadata.v ])

ChatRespond ==
  /\ api_pc = "enhanced"
  /\ http_response' = chat_response(http_request.data, result, llm_outcome)
  /\ api_pc' = "responded"
  /\ UNCHANGED << call_vars, suspended, text_vars, llm_service, config, http_request, validated,
                  llm_exchange, llm_outcome >>

\* Mutant: the body is validated before the Content-Type header.
OptimizeValidate_BodyFirst ==
  /\ api_pc = "received"
  /\ http_request.route = "/optimize"
  /\ LET body_checked == validate_prompt_input(http_request.data, config.MAX_PROMPT_LENGTH,
                                               config.MIN_PROMPT_LENGTH)
         outcome == IF body_checked.t = "raised" THEN body_checked
                    ELSE IF validate_content_type(http_request.content_type).t = "raised"
                      THEN validate_content_type(http_request.content_type)
                    ELSE body_checked
     IN  /\ validated' = outcome
         /\ IF outcome.t = "raised"
              THEN http_response' = handle_validation_error(outcome) /\ api_pc' = "responded"
              ELSE UNCHANGED http_response /\ api_pc' = "validated"
  /\ UNCHANGED << call_vars, suspended, text_vars, llm_service, config, http_request,
                  llm_exchange, llm_outcome >>

\* optimize_prompt(): validate_content_type(), request.get_json(silent=True),
\* validate_prompt_input(...); a ValidationError goes to its error handler.
OptimizeValidate ==
  /\ api_pc = "received"
  /\ http_request.route = "/optimize"
  /\ LET checked == validate_content_type(http_request.content_type)
         outcome == IF checked.t = "raised" THEN checked
                    ELSE validate_prompt_input(http_request.data, config.MAX_PROMPT_LENGTH,
                                               config.MIN_PROMPT_LENGTH)
     IN  /\ validated' = outcome
         /\ IF outcome.t = "raised"
              THEN http_response' = handle_validation_error(outcome) /\ api_pc' = "responded"
              ELSE UNCHANGED http_response /\ api_pc' = "validated"
  /\ UNCHANGED << call_vars, suspended, text_vars, llm_service, config, http_request,
                  llm_exchange, llm_outcome >>

\* optimize_prompt(): prompt_system.process(prompt, explicit_framework=explicit_framework)
OptimizeProcess ==
  /\ api_pc = "validated"
  /\ http_request.route = "/optimize"
  /\ Process(validated.v[1], validated.v[2], FALSE)

\* optimize_prompt(): return jsonify(opt_result)
OptimizeRespond ==
  /\ api_pc = "validated"
  /\ http_request.route = "/optimize"
  /\ pc = "returned"
  /\ http_response' = Response(200, result)
  /\ api_pc' = "responded"
  /\ UNCHANGED << call_vars, suspended, text_vars, llm_service, config, http_request, validated,
                  llm_exchange, llm_outcome >>

\* optimize_prompt(): process() raised. ValueError becomes a
\* ValidationError with the message of the ValueError, any other exception
\* the 500 response.
OptimizeProcessFailed ==
  /\ api_pc = "validated"
  /\ http_request.route = "/optimize"
  /\ pc = "raised"
  /\ http_response' = IF raised = "ValueError"
                        THEN handle_validation_error(
                               ValidationError("Input cannot be empty", "", 400))
                      ELSE Response(500, [ error |-> "Prompt optimization failed" ])
  /\ api_pc' = "responded"
  /\ UNCHANGED << call_vars, suspended, text_vars, llm_service, config, http_request, validated,
                  llm_exchange, llm_outcome >>

\* get_frameworks()
GetFrameworks ==
  /\ api_pc = "received"
  /\ http_request.route = "/frameworks"
  /\ http_response' = Response(200, list_frameworks)
  /\ api_pc' = "responded"
  /\ UNCHANGED << call_vars, suspended, text_vars, llm_service, config, http_request, validated,
                  llm_exchange, llm_outcome >>

\* get_framework_details(framework_id)
GetFrameworkDetails ==
  /\ api_pc = "received"
  /\ http_request.route = "/frameworks/<framework_id>"
  /\ LET checked == validate_framework_id(http_request.framework_id)
     IN  /\ validated' = checked
         /\ http_response' =
              IF checked.t = "raised" THEN handle_validation_error(checked)
              ELSE LET details == get_framework(checked.v)
                   IN  IF details # None THEN Response(200, details.v)
                       ELSE Response(404, [ error |-> "Framework \"" \o checked.v
                                                        \o "\" not found" ])
  /\ api_pc' = "responded"
  /\ UNCHANGED << call_vars, suspended, text_vars, llm_service, config, http_request, llm_exchange,
                  llm_outcome >>

\* The response is sent; the request, the handler's locals and the frames
\* of the calls it made are gone.
SendResponse ==
  /\ api_pc = "responded"
  /\ pc' = "idle"
  /\ user_input' = ""
  /\ explicit_framework' = None
  /\ force_static' = FALSE
  /\ cleaned_input' = None
  /\ framework' = "none"
  /\ confidence' = 0
  /\ attempt' = 0
  /\ violation_history' = << >>
  /\ generated' = None
  /\ generate_calls' = 0
  /\ attempt_log' = << >>
  /\ result' = None
  /\ raised' = "none"
  /\ api_pc' = "idle"
  /\ http_request' = None
  /\ validated' = None
  /\ llm_exchange' = None
  /\ llm_outcome' = None
  /\ http_response' = None
  /\ UNCHANGED << suspended, text_vars, llm_service, config >>

\* What the provider of the optimizer answers while a request is served.
ChatProviderResponses ==
  { r \in Responses :
      \/ r.kind = "timeout"
      \/ /\ r.status = 200
         /\ r.body.has_content
         /\ r.body.content \in { Str(VALID_TEXT), Str("ROLE\nEngineer"), Num(42) } }

NextApi ==
  \/ \E req \in Requests : Receive(req)
  \/ ChatUnavailable
  \/ ChatValidate
  \/ ChatProcess
  \/ OptimizeValidate
  \/ OptimizeProcess
  \/ RejectEmpty
  \/ ResolveExplicit
  \/ Classify
  \/ EnterLoop
  \/ ProviderUnavailable
  \/ \E response \in ChatProviderResponses : ProviderGenerate(response)
  \/ GenerationFailed
  \/ ValidateRaises
  \/ Validate
  \/ ChatProcessFailed
  \/ OptimizeProcessFailed
  \/ OptimizeRespond
  \/ \E exchange \in LlmExchanges : ChatEnhance(exchange)
  \/ ChatRespond
  \/ GetFrameworks
  \/ GetFrameworkDetails
  \/ SendResponse

SpecApi ==
  InitApi /\ [][NextApi]_vars

\* ------------------------------------------------------------------------
\* Claims on the HTTP layer
\* ------------------------------------------------------------------------

\* The request being served is POST /chat with a JSON content type.
ChatRequestChecked ==
  /\ http_request # None
  /\ http_request.route = "/chat"
  /\ contains("application/json", http_request.content_type)
  /\ validated # None

\* The value of key in the request body, Absent when the body is no object
\* or has no such key.
body_field(key) ==
  IF http_request.data.t = "dict" /\ key \in DOMAIN http_request.data.v
    THEN http_request.data.v[key]
  ELSE Absent

\* The prompts of the model that carry a script tag, a javascript: or
\* data:text/html URL, or a template expression.
SuspiciousTexts ==
  { "<script>x", "<SCRIPT x", "JavaScript:x", "data:text/html", "{{x}}", "${x}" }

\* The body is null or no object, or its prompt is missing, empty, no
\* string, too short or too long once stripped, or suspicious.
BadPrompt ==
  LET prompt == body_field("prompt")
  IN  \/ http_request.data.t # "dict"
      \/ prompt.t # "str"
      \/ prompt.v = ""
      \/ Len(strip(prompt.v)) < config.MIN_PROMPT_LENGTH
      \/ Len(strip(prompt.v)) > config.MAX_PROMPT_LENGTH
      \/ prompt.v \in SuspiciousTexts

\* The framework is given and is no string or, stripped and lowercased,
\* has a character outside a-z and _ or none at all.
BadFramework ==
  LET fw == body_field("framework")
  IN  /\ fw.t \notin { "absent", "none" }
      /\ \/ fw.t # "str"
         \/ lower(strip(fw.v)) = ""
         \/ \E i \in 1..Len(lower(strip(fw.v))) :
               Char(lower(strip(fw.v)), i) \notin CharsOf(ASCII_LOWERCASE) \cup { "_" }

\* C18: validate_prompt_input either raises ValidationError or returns the
\* pair (prompt, framework) where prompt is the stripped prompt of the
\* body, of a length within the limits and with no suspicious pattern, and
\* framework is None or the stripped, lowercased framework of the body,
\* all of whose characters are a-z or _; a null body, a body that is no
\* object, a missing, empty, non-string, too short, too long or
\* suspicious prompt and a bad framework always raise.
C18_ValidatedOrRaised ==
  ChatRequestChecked =>
    /\ validated.t = "raised" =>
         /\ validated.exception = "ValidationError"
         /\ validated.status_code = 400
         /\ BadPrompt \/ BadFramework
    /\ BadPrompt \/ BadFramework => validated.t = "raised"
    /\ validated.t = "returned" =>
         LET prompt == validated.v[1]
             fw == validated.v[2]
         IN  /\ prompt = strip(body_field("prompt").v)
             /\ Len(prompt) >= config.MIN_PROMPT_LENGTH
             /\ Len(prompt) <= config.MAX_PROMPT_LENGTH
             /\ ~contains_suspicious_patterns(prompt)
             /\ IF body_field("framework").t \in { "absent", "none" } THEN fw = None
                ELSE /\ fw.t = "str"
                     /\ fw.v = lower(strip(body_field("framework").v))
                     /\ \A i \in 1..Len(fw.v) :
                          Char(fw.v, i) \in CharsOf(ASCII_LOWERCASE) \cup { "_" }

C18_Witness ==
  /\ ChatRequestChecked
  /\ body_field("prompt") = Str("  sixteen chars ok  ")
  /\ validated.t = "returned"
  /\ validated.v[1] = "sixteen chars ok"

\* The body has the path choices[0].message.content.
WellFormedBody(body) ==
  /\ body.t = "dict"
  /\ "choices" \in DOMAIN body.v
  /\ body.v.choices.t = "list"
  /\ Len(body.v.choices.v) > 0
  /\ body.v.choices.v[1].t = "dict"
  /\ "message" \in DOMAIN body.v.choices.v[1].v
  /\ body.v.choices.v[1].v.message.t = "dict"
  /\ "content" \in DOMAIN body.v.choices.v[1].v.message.v

\* C19: LLMService.optimize_prompt returns an LLMResponse with the content
\* and the model for a 200 response with a well-formed body, and raises
\* nothing but LLMError otherwise: status 504 for a timeout, 502 for any
\* other connection or request failure, the response's status for a
\* status other than 200, and 500 for a 200 response whose body is
\* malformed.
C19_OnlyLLMErrorEscapes ==
  llm_outcome # None =>
    LET raises(status) == /\ llm_outcome.t = "raised"
                          /\ llm_outcome.exception = "LLMError"
                          /\ llm_outcome.status_code = status
    IN  CASE llm_exchange.kind = "timeout" -> raises(504)
          [] llm_exchange.kind = "connection_error" -> raises(502)
          [] llm_exchange.status # 200 -> raises(llm_exchange.status)
          [] llm_exchange.json.t = "raised" -> raises(502) \/ raises(500)
          [] OTHER ->
               IF WellFormedBody(llm_exchange.json)
                 THEN /\ llm_outcome.t = "returned"
                      /\ llm_outcome.v.content
                           = llm_exchange.json.v.choices.v[1].v.message.v.content
                      /\ llm_outcome.v.model
                           = IF "model" \in DOMAIN llm_exchange.json.v
                               THEN llm_exchange.json.v.model ELSE Str(GROQ_MODEL)
               ELSE raises(500)

\* The request being served asked for the metadata.
MetadataRequested ==
  /\ http_request # None
  /\ http_request.route = "/chat"
  /\ body_field("include_meta") = Bool(TRUE)

\* C17: POST /chat with include_meta true, when the LLM call returns, is
\* answered 200 with "optimized_prompt" and "metadata"; every field the
\* handler reads from the result of process() is a field process() returns.
C17_ChatMetadataReturned ==
  /\ result # None =>
       \A i \in 1..Len(METADATA_READS) : METADATA_READS[i] \in DOMAIN result
  /\ MetadataRequested /\ api_pc = "responded" /\ llm_outcome # None
       /\ llm_outcome.t = "returned" =>
         /\ http_response.status = 200
         /\ { "optimized_prompt", "metadata" } \subseteq DOMAIN http_response.body

\* The ids list_frameworks() lists.
ListedIds ==
  { list_frameworks[i].id : i \in 1..Len(list_frameworks) }

\* C20: list_frameworks() has one entry per member of Framework, in
\* declaration order, each with id, name, description and ideal_for;
\* get_framework(id) returns the details with that id exactly when id is
\* listed and None otherwise, which the endpoint answers with 404.
C20_FrameworkListing ==
  /\ Len(list_frameworks) = Len(Framework)
  /\ \A i \in 1..Len(Framework) :
       /\ list_frameworks[i].id = FrameworkValue[Framework[i]]
       /\ { "id", "name", "description", "ideal_for" } \subseteq DOMAIN list_frameworks[i]
  /\ \A id \in FrameworkIds :
       IF id \in ListedIds
         THEN get_framework(id) # None /\ get_framework(id).v.id = id
       ELSE get_framework(id) = None
  /\ api_pc = "responded" /\ http_request.route = "/frameworks" =>
       http_response = Response(200, list_frameworks)
  /\ api_pc = "responded" /\ http_request.route = "/frameworks/<framework_id>"
       /\ validated.t = "returned" =>
         IF validated.v \in ListedIds
           THEN http_response.status = 200 /\ http_response.body.id = validated.v
         ELSE http_response.status = 404

C20_Witness ==
  /\ api_pc = "responded"
  /\ http_request.route = "/frameworks/<framework_id>"
  /\ http_request.framework_id = "Coding_Technical"
  /\ http_response.status = 200
  /\ http_response.body.id = "coding_technical"

\* ------------------------------------------------------------------------
\* Claims on the control loop: feedback, fallback, acceptance, temperature
\* ------------------------------------------------------------------------

\* The value is no text: null or the empty string.
NoText(value) ==
  value = None \/ value = Str("")

\* C21: an attempt in which the provider returned no text, null or the
\* empty string, adds nothing to the violation history: on an attempt
\* before the last the loop goes on to the next attempt with the history
\* unchanged, on the last attempt the call returns the static result.
C21_NoTextAddsNoHistory ==
  [][ (pc = "generated" /\ NoText(generated)) =>
        /\ violation_history' = violation_history
        /\ IF attempt = MAX_RETRIES
             THEN pc' = "returned" /\ result' = StaticResult
           ELSE pc' = "generate" /\ attempt' = attempt + 1 ]_vars

RECURSIVE violations_before(_)
\* The violation lists of attempts 1..n that produced text, one after the
\* other in attempt order.
violations_before(n) ==
  IF n = 0 THEN << >>
  ELSE violations_before(n - 1)
         \o (IF YieldedText(n) /\ ~NoText(attempt_log[n].generated)
               THEN validate(attempt_log[n].generated.v) ELSE << >>)

\* C22: the violation feedback passed to a generation attempt is the
\* concatenation, in attempt order, of the violation lists of all earlier
\* attempts that produced text, with nothing dropped or deduplicated; the
\* first attempt gets no feedback.
C22_FeedbackIsConcatenation ==
  \A i \in 1..Len(attempt_log) :
     attempt_log[i].available =>
       attempt_log[i].request.violation_feedback = violations_before(i - 1)

\* The confidence step 2 of optimize() computes for the arguments of the call.
ResolvedConfidence ==
  IF truthy(explicit_framework) THEN resolve_framework(explicit_framework.v)[2]
  ELSE classify(user_input)[2]

\* The call went through the loop and fell back to the static structurer.
FellBack ==
  /\ pc = "returned"
  /\ ~force_static
  /\ result.generation_mode = "static"

\* C23: the result of a fallback is StaticStructurer.structure(original
\* input, framework resolved in step 2): it is a function of the arguments
\* of the call alone, whatever the attempts returned and whatever the
\* violation history holds, and no text the LLM returned is part of it.
C23_FallbackIgnoresAttempts ==
  FellBack =>
    /\ Len(attempt_log) = MAX_RETRIES + 1
    /\ result = process_result(user_input,
                               static_structurer[<< user_input, ResolvedFramework >>])
    /\ \A i \in 1..Len(attempt_log) :
         (YieldedText(i) /\ ~NoText(attempt_log[i].generated)) =>
           ~contains(attempt_log[i].generated.v, result.optimized_prompt)

C23_Witness ==
  /\ FellBack
  /\ \A i \in 1..Len(attempt_log) : YieldedText(i) /\ ~NoText(attempt_log[i].generated)
  /\ Len(violation_history) > Len(result.violations)
  /\ attempt_log[1].generated # attempt_log[2].generated

\* C24: an accepted result carries the text of the accepted attempt as it
\* was generated, the framework step 2 resolved and the confidence step 2
\* computed, whatever the number of attempts made before.
C24_AcceptKeepsStepTwo ==
  (pc = "returned" /\ result.generation_mode = "dynamic") =>
    /\ result.optimized_prompt = attempt_log[Len(attempt_log)].generated.v
    /\ result.framework.id = FrameworkValue[ResolvedFramework]
    /\ result.framework.name = spec_name[ResolvedFramework]
    /\ result.confidence = ResolvedConfidence

C24_Witness ==
  /\ pc = "returned"
  /\ result.generation_mode = "dynamic"
  /\ Len(attempt_log) = MAX_RETRIES + 1
  /\ result.confidence = 20
  /\ result.confidence = ResolvedConfidence

\* min(0.3 x 1.5^a, 1.0) in thousandths for the attempt indices 0, 1, 2
ExpectedTemperatures ==
  << 300, 450, 675 >>

\* C27: the temperature passed to generate on attempt index a is
\* min(0.3 x 1.5^a, 1.0), that is 0.3, 0.45, 0.675: it depends on the
\* attempt index alone, never decreases from an attempt to a later one and
\* never exceeds 1.0.
C27_TemperatureSchedule ==
  \A i \in 1..Len(attempt_log) :
     attempt_log[i].available =>
       /\ attempt_log[i].request.temperature = ExpectedTemperatures[i]
       /\ attempt_log[i].request.temperature <= 1000
       /\ \A j \in 1..(i - 1) :
            attempt_log[j].available =>
              attempt_log[j].request.temperature <= attempt_log[i].request.temperature

C27_Witness ==
  /\ Len(attempt_log) = 3
  /\ \A i \in 1..3 : attempt_log[i].available
  /\ attempt_log[3].request.temperature = 675

\* The text is the retry form of the user prompt.
IsRetryPrompt(text) ==
  LET opening == "Your previous output violated the following rules"
  IN  Len(text) >= Len(opening) /\ SubSeq(text, 1, Len(opening)) = opening

\* C30: a user prompt of the retry form sent to the LLM carries a
\* non-empty violation list, also when an earlier attempt produced no text
\* or found the provider unavailable.
C30_RetryPromptHasViolations ==
  \A i \in 1..Len(attempt_log) :
     (attempt_log[i].available /\ IsRetryPrompt(attempt_log[i].request.user_input)) =>
       /\ attempt_log[i].request.violation_feedback # << >>
       /\ \E j \in 1..(i - 1) :
            YieldedText(j) /\ validate(attempt_log[j].generated.v) # << >>

\* The request being served is POST /optimize.
OptimizeRequest ==
  http_request # None /\ http_request.route = "/optimize"

\* C28: POST /optimize checks the Content-Type first (415 for a content
\* type that is not JSON, whatever the body), then the body (400 for a bad
\* body), and calls process() only after both checks passed; a ValueError
\* of process() is answered 400, never 500.
C28_OptimizeCheckOrder ==
  OptimizeRequest =>
    LET json_type == contains("application/json", http_request.content_type)
    IN  /\ pc # "idle" =>
             /\ json_type
             /\ ~(BadPrompt \/ BadFramework)
             /\ validated # None /\ validated.t = "returned"
        /\ api_pc = "responded" =>
             /\ ~json_type => http_response.status = 415
             /\ (json_type /\ (BadPrompt \/ BadFramework)) => http_response.status = 400
             /\ raised = "ValueError" => http_response.status = 400
             /\ (http_response.status = 200) = (pc = "returned")

C28_Witness ==
  /\ OptimizeRequest
  /\ api_pc = "responded"
  /\ raised = "ValueError"
  /\ http_response.status = 400

\* ------------------------------------------------------------------------
\* Claims on classify() scores and on _clean_input
\* ------------------------------------------------------------------------

\* The number of triggers of fw that occur in the lowercased text.
RawScore(fw, text) ==
  Cardinality({ k \in 1..Len(spec_triggers[fw]) : contains(spec_triggers[fw][k], lower(text)) })

\* The largest possible score of fw: one per trigger.
MaxScore(fw) ==
  Len(spec_triggers[fw])

\* C25: classify() returns the framework whose normalized score, the raw
\* trigger score divided by the framework's maximum possible score, is the
\* highest, and the confidence is that normalized score on the scale 0.0
\* to 1.0.
C25_NormalizedScore ==
  (classify_returned # None /\ ~NoTrigger(arg_text)) =>
    LET best == classify_returned.v[1]
        raw == [ fw \in Frameworks |-> RawScore(fw, arg_text) ]
    IN  /\ \A fw \in Frameworks : raw[fw] * MaxScore(best) <= raw[best] * MaxScore(fw)
        /\ classify_returned.v[2] * MaxScore(best) = 100 * raw[best]

\* The frameworks whose score for the text is the highest.
TopFrameworks(text) ==
  LET raw == [ fw \in Frameworks |-> RawScore(fw, text) ]
  IN  { fw \in Frameworks : \A other \in Frameworks : raw[other] <= raw[fw] }

\* The position of fw in the declaration order of the registry.
DeclarationIndex(fw) ==
  CHOOSE i \in 1..Len(Framework) : Framework[i] = fw

\* C26: when several frameworks share the highest nonzero score, classify()
\* returns the one declared first; the confidence is within 0.0 and 1.0.
C26_TieGoesToFirstDeclared ==
  classify_returned # None =>
    /\ classify_returned.v[2] \in 0..100
    /\ ~NoTrigger(arg_text) =>
         LET top == TopFrameworks(arg_text)
         IN  /\ classify_returned.v[1] \in top
             /\ \A fw \in top :
                  DeclarationIndex(classify_returned.v[1]) <= DeclarationIndex(fw)

\* More than five triggers of one framework: the confidence is capped.
C26_CapReached ==
  /\ classify_returned # None
  /\ RawScore(classify_returned.v[1], arg_text) > 5
  /\ classify_returned.v[2] = 100

C26_Witness ==
  /\ arg_text = "design a strategy"
  /\ classify_returned # None
  /\ TopFrameworks(arg_text) = { "CREATIVE", "STRATEGY" }
  /\ classify_returned.v[1] = "CREATIVE"

\* The filler phrases of _clean_input, all patterns together.
FillerPhrases ==
  { filler_patterns[i][k] : i \in 1..Len(filler_patterns), k \in 1..4 }
  \cup { filler_patterns[i][k] : i \in 1..2, k \in 5..6 }
  \cup { filler_patterns[1][7] }

\* C29: the text _clean_input returns holds none of the filler phrases as
\* a whole word or phrase, and cleaning it again changes nothing.
C29_CleanInputIdempotent ==
  clean_returned # None =>
    /\ \A phrase \in FillerPhrases : ~OccursAsWord(phrase, clean_returned.v)
    /\ clean_input(clean_returned.v) = clean_returned.v

====
